---------------------------- MODULE Spec2Model ----------------------------
(***************************************************************************)
(* WhisprBar (src/whisprbar.py): the recording session controller and the  *)
(* hotkey listener that drives it.                                         *)
(*                                                                         *)
(* The program keeps its state in module globals (state[...], AUDIO_QUEUE, *)
(* HOTKEY_KEY, hotkey_listener, capture_listener) and takes no lock.  The  *)
(* control operations (toggle_recording, start_recording, stop_recording,  *)
(* shutdown) are therefore modelled one shared access per step, with the   *)
(* source line of the access as the program counter; each thread that can  *)
(* call them is a process:                                                 *)
(*   "hotkey"  the pynput listener thread (on_press, line 766)             *)
(*   "tray"    the main thread running the tray loop (menu handlers)       *)
(*   "signal"  the SIGINT/SIGTERM handler (line 2363); Python runs it on   *)
(*             the main thread, on top of whatever the tray loop was doing *)
(* and the audio callback of every open stream is a process of its own     *)
(* (PortAudio calls recording_callback from its own thread).               *)
(*                                                                         *)
(* Three specifications use the same actions:                              *)
(*   Spec        the three control threads and the callbacks, interleaved  *)
(*   SpecSerial  one control call at a time, the callbacks interleaved     *)
(*   SpecKeys    the key events of the hotkey listener and the calls they  *)
(*               make on the listener thread                               *)
(***************************************************************************)
EXTENDS Integers, Sequences, FiniteSets, TLC

\* ------------------------------------------------------------------ bounds
\* start_recording calls that get past the "already recording" test
MaxSessions == 2
\* chunks the audio subsystem delivers in all
MaxChunks == 2
\* calls of toggle_recording, stop_recording and shutdown made in all
MaxCalls == 3
\* the longest mask _drop_short_runs is called with, and the largest min_len
MaxMask == 5
MaxMinLen == 4
\* the most whole frames a buffer given to apply_vad has
MaxFrames == 5

\* the most sound devices the system lists
MaxDevices == 3

Threads == {"hotkey", "tray", "signal"}
Sessions == 1..MaxSessions
\* None as a queue or stream reference
None == 0
\* None as the modifier name of a key that is no modifier
NoName == "None"
\* a Python string is the sequence of its characters; the empty string and
\* None, both false in a condition, are the empty sequence
NoToken == <<>>
F9 == <<"F", "9">>

\* the physical keys of the model and the bindings the configuration may hold
Keys == {"ctrl_l", "ctrl_r", "shift", "f9", "a", "esc"}
Bindings == {<<{}, F9>>, <<{"CTRL"}, F9>>, <<{"CTRL", "SHIFT"}, <<"A">>>>}

\* ------------------------------------------------------ strings and bindings
\* str.upper(), for the characters of the model
upper_char(c) ==
    CASE c = "a" -> "A" [] c = "b" -> "B" [] c = "c" -> "C" [] c = "t" -> "T"
      [] c = "r" -> "R" [] c = "l" -> "L" [] c = "s" -> "S" [] c = "h" -> "H"
      [] c = "i" -> "I" [] c = "f" -> "F" [] c = "u" -> "U" [] c = "p" -> "P"
      [] c = "e" -> "E" [] OTHER -> c

upper(s) == [i \in 1..Len(s) |-> upper_char(s[i])]

\* str.strip()
Whitespace == {" "}

RECURSIVE lstrip(_)
lstrip(s) == IF s # <<>> /\ Head(s) \in Whitespace THEN lstrip(Tail(s)) ELSE s

RECURSIVE rstrip(_)
rstrip(s) ==
    IF s # <<>> /\ s[Len(s)] \in Whitespace
      THEN rstrip(SubSeq(s, 1, Len(s) - 1))
      ELSE s

strip(s) == rstrip(lstrip(s))

\* str.split(sep) for a one-character separator: the pieces between the
\* separators, empty pieces included
RECURSIVE split(_, _)
split(s, sep) ==
    IF \E i \in 1..Len(s) : s[i] = sep
      THEN LET i == CHOOSE i \in 1..Len(s) :
                        s[i] = sep /\ \A j \in 1..(i - 1) : s[j] # sep
           IN  <<SubSeq(s, 1, i - 1)>> \o split(SubSeq(s, i + 1, Len(s)), sep)
      ELSE <<s>>

\* sep.join(parts)
RECURSIVE join(_, _)
join(parts, sep) ==
    IF parts = <<>> THEN <<>>
    ELSE IF Len(parts) = 1 THEN parts[1]
    ELSE parts[1] \o <<sep>> \o join(Tail(parts), sep)

\* lines 611-616: the names F1 .. F24 (the keys of FKEYS)
Digit == <<"1", "2", "3", "4", "5", "6", "7", "8", "9">>
Decimal(n) ==
    IF n < 10 THEN <<Digit[n]>>
    ELSE <<Digit[n \div 10]>> \o (IF n % 10 = 0 THEN <<"0">> ELSE <<Digit[n % 10]>>)
FKEYS == {<<"F">> \o Decimal(n) : n \in 1..24}

\* lines 627-632: the keys of MODIFIER_MAP, and how each name is spelled
MODIFIER_MAP == {"CTRL", "ALT", "SHIFT", "SUPER"}
Spelling ==
    [CTRL |-> <<"C", "T", "R", "L">>, ALT |-> <<"A", "L", "T">>,
     SHIFT |-> <<"S", "H", "I", "F", "T">>, SUPER |-> <<"S", "U", "P", "E", "R">>]

\* lines 640-645
MODIFIER_LABELS ==
    [CTRL |-> <<"C", "t", "r", "l">>, ALT |-> <<"A", "l", "t">>,
     SHIFT |-> <<"S", "h", "i", "f", "t">>, SUPER |-> <<"S", "u", "p", "e", "r">>]

\* lines 647-652: the modifier names in the order of their MODIFIER_ORDER values
MODIFIER_ORDER == <<"CTRL", "SHIFT", "ALT", "SUPER">>

\* the modifiers sorted by name instead of by MODIFIER_ORDER
sorted_modifiers_byname(modifiers) ==
    SelectSeq(<<"ALT", "CTRL", "SHIFT", "SUPER">>, LAMBDA m : m \in modifiers)

\* sorted(modifiers, key=lambda x: MODIFIER_ORDER.get(x, 99))
sorted_modifiers(modifiers) ==
    SelectSeq(MODIFIER_ORDER, LAMBDA m : m \in modifiers)

\* lines 656-664
normalize_key_token(token) ==
    LET t == upper(strip(token))
    IN  IF t = <<>> THEN NoToken
        ELSE IF t \in FKEYS THEN t
        ELSE IF Len(t) = 1 THEN t
        ELSE NoToken

\* line 671: [part.strip() for part in binding.split("+") if part.strip()]
hotkey_parts(binding) ==
    LET raw == split(binding, "+")
    IN  SelectSeq([i \in 1..Len(raw) |-> strip(raw[i])], LAMBDA part : part # <<>>)

\* parse_hotkey without the fallback of lines 675-676
parse_hotkey_nofallback(binding) ==
    LET b == strip(binding)
        parts == hotkey_parts(b)
    IN  IF b = <<>> \/ parts = <<>> THEN <<{}, F9>>
        ELSE <<{m \in MODIFIER_MAP :
                  \E i \in 1..(Len(parts) - 1) : upper(parts[i]) = Spelling[m]},
               upper(parts[Len(parts)])>>

\* lines 667-682
parse_hotkey(binding) ==
    LET b == strip(binding)
        parts == hotkey_parts(b)
    IN  IF b = <<>> \/ parts = <<>> THEN <<{}, F9>>
        ELSE LET key_token == normalize_key_token(parts[Len(parts)])
             IN  IF key_token = NoToken THEN <<{}, F9>>
                 ELSE <<{m \in MODIFIER_MAP :
                           \E i \in 1..(Len(parts) - 1) : upper(parts[i]) = Spelling[m]},
                        key_token>>

\* lines 685-696: key_to_label for a binding
key_to_label(key_obj) ==
    LET mods == sorted_modifiers(key_obj[1])
        token == key_obj[2]
    IN  join([i \in 1..Len(mods) |-> MODIFIER_LABELS[mods[i]]]
               \o <<IF token \in FKEYS THEN token ELSE upper(token)>>, "+")

\* lines 708-713: key_to_config_string for a binding
key_to_config_string(key_obj) ==
    LET mods == sorted_modifiers(key_obj[1])
    IN  join([i \in 1..Len(mods) |-> Spelling[mods[i]]] \o <<upper(key_obj[2])>>, "+")

\* lines 722-727
hotkey_to_label(binding) == key_to_label(binding)
hotkey_to_config(binding) == key_to_config_string(binding)

VARIABLES
    \* state["recording"], state["stream"], AUDIO_QUEUE (the module globals)
    recording, stream, AUDIO_QUEUE,
    \* hotkey_listener, capture_listener, state["hotkey_capture_active"], icon_ready
    hotkey_listener, capture_listener, hotkey_capture_active, icon_ready,
    \* HOTKEY_KEY and the sets on_press / on_release close over (lines 763-764)
    HOTKEY_KEY, active_modifiers, active_tokens,
    \* per control thread: position, and the function that called start_recording
    \* or stop_recording ("toggle", "on_press", "shutdown"; "none" when idle)
    pc, caller,
    \* per control thread: the locals queue_obj, stream, frames
    queue_obj, lstream, frames,
    \* the objects start_recording creates: session n owns queue n and stream n
    nalloc, sstatus, closes, queues,
    \* per stream: position of its callback, the queue reference it loaded and
    \* the chunk it was called with; the number of chunks delivered so far
    cbpc, cbq, indata, cbn,
    \* the collaborators: notify() counts per message, transcription tasks started
    notes, tasks,
    \* calls made so far
    ncalls,
    \* the environment: the keys physically down
    held,
    \* history (not program state): chunks ever put into each queue, queues whose
    \* session was flipped to idle, outcome of the last call that returned,
    \* whether a callback raised, held keys whose press has fired a toggle
    enq, flipped, last, cbraised, firedKeys,
    \* the capture session: capture_modifiers and capture_done["value"] (lines
    \* 1518-1519), the position of the capture listener's thread, whether
    \* that thread still delivers events, and (history) the tokens the session
    \* has called update_hotkey_binding with
    capture_modifiers, capture_done, cpc, cap_alive, finals,
    \* the program start: position of main(), whether the key-event source can
    \* be opened, and (history) the functions an exception has propagated out of
    mpc, source_ok, raised,
    \* cfg["hotkey"], and (history) the binding it was written from and who
    \* wrote it how: save_config(), or the user's edit of the file
    cfg_hotkey, persisted, shape,
    \* a call of _drop_short_runs: its position, its arguments mask and min_len,
    \* and the array it returns
    rpc, mask, min_len, cleaned,
    \* a call of apply_vad: its position; the cfg keys it reads and
    \* VAD_AVAILABLE; the buffer as its whole frames (what the classifier
    \* says of each, and its RMS) and its remainder (size and RMS); the locals
    \* speech_mask, combined_mask and processed_int (each output sample as
    \* the input position it was copied from); what the call returned; and
    \* (history) the segments the remainder was appended to
    vpc, vcfg, VAD_AVAILABLE, vframes, vrem, speech_mask, combined_mask,
    processed_int, vresult, tails,
    \* a call of find_device_index_by_name: its position, what
    \* sd.query_devices() lists (a name and max_input_channels for each
    \* device), the name it is given ("" for none) and what it returned
    dpc, devices, dname, dresult

glob == <<recording, stream, AUDIO_QUEUE>>
cap == <<capture_modifiers, capture_done, cpc, cap_alive, finals>>
runs == <<rpc, mask, min_len, cleaned>>
\* the calls of the functions that read no global of the program
vad == <<vpc, vcfg, VAD_AVAILABLE, vframes, vrem, speech_mask, combined_mask,
         processed_int, vresult, tails>>
dev == <<dpc, devices, dname, dresult>>
pure == <<runs, vad, dev>>
boot == <<mpc, source_ok, raised, pure>>
lst_but_pure == <<hotkey_listener, capture_listener, hotkey_capture_active,
                  icon_ready, cap, mpc, source_ok, raised, cfg_hotkey, persisted,
                  shape>>
cfgs == <<cfg_hotkey, persisted, shape>>
lst == <<hotkey_listener, capture_listener, hotkey_capture_active, icon_ready,
         cap, boot, cfgs>>
keys == <<HOTKEY_KEY, active_modifiers, active_tokens, held, firedKeys>>
locals == <<queue_obj, lstream, frames>>
objs == <<nalloc, sstatus, closes, queues>>
cb == <<cbpc, cbq, indata, cbn>>
ext == <<notes, tasks>>
hist == <<enq, flipped, last, cbraised>>
vars == <<glob, lst, keys, pc, caller, locals, objs, cb, ext, ncalls, hist>>

\* no call of _drop_short_runs is in progress
RunsIdle == rpc = "idle" /\ mask = <<>> /\ min_len = 0 /\ cleaned = <<>>

\* lines 182-185 and the defaults of lines 1283 and 1275: the cfg keys
\* apply_vad reads
DefaultVadCfg ==
    [use_vad |-> FALSE, vad_bridge_ms |-> 180, vad_min_energy_frames |-> 2,
     vad_padding_ms |-> 200]

\* no call of apply_vad is in progress
VadIdle ==
    /\ vpc = "idle" /\ vcfg = DefaultVadCfg /\ VAD_AVAILABLE = FALSE
    /\ vframes = <<>> /\ vrem = [size |-> 0, rms |-> 0]
    /\ speech_mask = <<>> /\ combined_mask = <<>> /\ processed_int = <<>>
    /\ vresult = [kind |-> "none", pos |-> <<>>] /\ tails = <<>>

\* none of the functions that read no global is being called
\* None, where an index is expected
NoIndex == -1

DevIdle == dpc = "idle" /\ devices = <<>> /\ dname = <<>> /\ dresult = NoIndex

PureIdle == RunsIdle /\ VadIdle /\ DevIdle

\* the module's globals as the import leaves them (lines 206-216, 298-311, 804)
InitGlobals ==
    /\ recording = FALSE /\ stream = None /\ AUDIO_QUEUE = None
    /\ capture_listener = "unset"
    /\ hotkey_capture_active = FALSE /\ icon_ready = TRUE
    /\ capture_modifiers = {} /\ capture_done = FALSE /\ cpc = "idle"
    /\ cap_alive = FALSE /\ finals = <<>>
    /\ raised = {}
    /\ active_modifiers = {} /\ active_tokens = {}
    /\ pc = [t \in Threads |-> "idle"]
    /\ caller = [t \in Threads |-> "none"]
    /\ queue_obj = [t \in Threads |-> None]
    /\ lstream = [t \in Threads |-> None]
    /\ frames = [t \in Threads |-> <<>>]
    /\ nalloc = 0
    /\ sstatus = [s \in Sessions |-> "none"]
    /\ closes = [s \in Sessions |-> 0]
    /\ queues = [s \in Sessions |-> <<>>]
    /\ cbpc = [s \in Sessions |-> "idle"]
    /\ cbq = [s \in Sessions |-> None]
    /\ indata = [s \in Sessions |-> 0]
    /\ cbn = 0
    /\ notes = [m \in {"started", "unable", "noaudio"} |-> 0]
    /\ tasks = <<>>
    /\ ncalls = 0
    /\ held = {}
    /\ enq = [s \in Sessions |-> <<>>]
    /\ flipped = {}
    /\ last = "none"
    /\ cbraised = FALSE
    /\ firedKeys = {}

\* the program with none of its pure functions in a call
InitCommon == InitGlobals /\ PureIdle

\* main() has started the hotkey listener (line 2396) and runs the tray loop
InitState ==
    /\ InitCommon
    /\ hotkey_listener = "running" /\ mpc = "running" /\ source_ok = TRUE

\* lines 595-600: the configuration file as save_config() wrote it
Saved == [kind |-> "saved", rev |-> FALSE, lower |-> FALSE, pad |-> FALSE,
          extra |-> FALSE]

\* binding b is active and cfg["hotkey"] holds its config string (line 1574)
Configured(b) ==
    /\ HOTKEY_KEY = b
    /\ cfg_hotkey = hotkey_to_config(b) /\ persisted = b /\ shape = Saved

\* line 305: HOTKEY_KEY = (frozenset(), "F9"); line 178: "hotkey": "F9"
Init == InitState /\ Configured(<<{}, F9>>)

\* line 2386: HOTKEY_KEY = parse_hotkey(cfg.get("hotkey"))
InitKeys == InitState /\ \E b \in Bindings : Configured(b)

\* thread t is at line l and may run: the tray handler is resumed only when
\* the signal handler, which runs on top of it on the main thread, has returned
At(t, l) == pc[t] = l /\ (t = "tray" => pc["signal"] = "idle")

\* thread t goes on to line l of the function it is in
Goto(t, l) == pc' = [pc EXCEPT ![t] = l] /\ UNCHANGED caller

\* start_recording / stop_recording returns on thread t: into shutdown
\* (line 2338) or out of the handler that called
Return(t) ==
    IF caller[t] = "shutdown"
      THEN Goto(t, "l2338")
      ELSE /\ pc' = [pc EXCEPT ![t] = "idle"]
           /\ caller' = [caller EXCEPT ![t] = "none"]

\* streams that were opened and not closed
OpenStreams == {s \in Sessions : sstatus[s] \in {"active", "stopped"}}

\* ------------------------------------------------------- recording_callback
\* line 946: PortAudio delivers a chunk of stream s; line 949 drops it when
\* state["recording"] is false
recording_callback_l949(s) ==
    /\ sstatus[s] = "active" /\ cbpc[s] = "idle" /\ cbn < MaxChunks
    /\ cbn' = cbn + 1
    /\ cbpc' = [cbpc EXCEPT ![s] = IF recording THEN "l951" ELSE "idle"]
    /\ indata' = [indata EXCEPT ![s] = IF recording THEN cbn + 1 ELSE 0]
    /\ UNCHANGED <<glob, lst, keys, pc, caller, locals, objs, cbq, ext, ncalls, hist>>

\* line 951: if AUDIO_QUEUE is not None
recording_callback_l951(s) ==
    /\ cbpc[s] = "l951"
    /\ cbpc' = [cbpc EXCEPT ![s] = IF AUDIO_QUEUE # None THEN "l952" ELSE "idle"]
    /\ indata' = [indata EXCEPT ![s] = IF AUDIO_QUEUE # None THEN @ ELSE 0]
    /\ UNCHANGED <<glob, lst, keys, pc, caller, locals, objs, cbq, cbn, ext, ncalls, hist>>

\* line 952, first half: the global AUDIO_QUEUE is read again to call put on
\* it; on None the attribute lookup raises inside the callback
recording_callback_l952(s) ==
    /\ cbpc[s] = "l952"
    /\ IF AUDIO_QUEUE # None
         THEN /\ cbq' = [cbq EXCEPT ![s] = AUDIO_QUEUE]
              /\ cbpc' = [cbpc EXCEPT ![s] = "put"]
              /\ UNCHANGED <<cbraised, indata>>
         ELSE /\ cbraised' = TRUE
              /\ cbpc' = [cbpc EXCEPT ![s] = "idle"]
              /\ indata' = [indata EXCEPT ![s] = 0]
              /\ UNCHANGED cbq
    /\ UNCHANGED <<glob, lst, keys, pc, caller, locals, objs, cbn, ext, ncalls,
                   enq, flipped, last>>

\* line 952, second half: put appends indata.copy() to the queue that was read
recording_callback_put(s) ==
    /\ cbpc[s] = "put"
    /\ queues' = [queues EXCEPT ![cbq[s]] = Append(@, <<s, indata[s]>>)]
    /\ enq' = [enq EXCEPT ![cbq[s]] = Append(@, <<s, indata[s]>>)]
    /\ cbpc' = [cbpc EXCEPT ![s] = "idle"]
    /\ cbq' = [cbq EXCEPT ![s] = None]
    /\ indata' = [indata EXCEPT ![s] = 0]
    /\ UNCHANGED <<glob, lst, keys, pc, caller, locals, nalloc, sstatus, closes,
                   cbn, ext, ncalls, flipped, last, cbraised>>

recording_callback(s) ==
    \/ recording_callback_l949(s)
    \/ recording_callback_l951(s)
    \/ recording_callback_l952(s)
    \/ recording_callback_put(s)

\* ---------------------------------------------------------- start_recording
\* start_recording without the test of line 956
start_recording_l956_nocheck(t) ==
    /\ At(t, "l956")
    /\ nalloc < MaxSessions /\ Goto(t, "l961")
    /\ UNCHANGED <<glob, lst, keys, locals, objs, cb, ext, ncalls, hist>>

\* line 956: if state.get("recording"): return
start_recording_l956(t) ==
    /\ At(t, "l956")
    /\ IF recording
         THEN Return(t) /\ last' = "start_noop"
         ELSE nalloc < MaxSessions /\ Goto(t, "l961") /\ UNCHANGED last
    /\ UNCHANGED <<glob, lst, keys, locals, objs, cb, ext, ncalls,
                   enq, flipped, cbraised>>

\* lines 961-962: queue_obj = queue.Queue(); AUDIO_QUEUE = queue_obj
start_recording_l961(t) ==
    /\ At(t, "l961") /\ nalloc < MaxSessions
    /\ nalloc' = nalloc + 1
    /\ queue_obj' = [queue_obj EXCEPT ![t] = nalloc + 1]
    /\ AUDIO_QUEUE' = nalloc + 1
    /\ Goto(t, "l963")
    /\ UNCHANGED <<recording, stream, lst, keys, lstream, frames, sstatus,
                   closes, queues, cb, ext, ncalls, hist>>

\* start_recording whose exception handler leaves AUDIO_QUEUE as it is
start_recording_l963_keepqueue(t) ==
    /\ At(t, "l963")
    /\ \E opened \in BOOLEAN :
         IF opened
           THEN /\ sstatus' = [sstatus EXCEPT ![queue_obj[t]] = "active"]
                /\ lstream' = [lstream EXCEPT ![t] = queue_obj[t]]
                /\ Goto(t, "l972")
                /\ UNCHANGED <<AUDIO_QUEUE, notes, last, queue_obj>>
           ELSE /\ sstatus' = [sstatus EXCEPT ![queue_obj[t]] = "failed"]
                /\ notes' = [notes EXCEPT !["unable"] = @ + 1]
                /\ last' = "failed"
                /\ queue_obj' = [queue_obj EXCEPT ![t] = None]
                /\ Return(t)
                /\ UNCHANGED <<AUDIO_QUEUE, lstream>>
    /\ UNCHANGED <<recording, stream, lst, keys, frames, nalloc, closes,
                   queues, cb, tasks, ncalls, enq, flipped, cbraised>>

\* lines 963-971: sd.InputStream(...) and stream.start(); when either raises,
\* the handler of lines 978-981 clears AUDIO_QUEUE and reports
start_recording_l963(t) ==
    /\ At(t, "l963")
    /\ \E opened \in BOOLEAN :
         IF opened
           THEN /\ sstatus' = [sstatus EXCEPT ![queue_obj[t]] = "active"]
                /\ lstream' = [lstream EXCEPT ![t] = queue_obj[t]]
                /\ Goto(t, "l972")
                /\ UNCHANGED <<AUDIO_QUEUE, notes, last, queue_obj>>
           ELSE /\ sstatus' = [sstatus EXCEPT ![queue_obj[t]] = "failed"]
                /\ AUDIO_QUEUE' = None
                /\ notes' = [notes EXCEPT !["unable"] = @ + 1]
                /\ last' = "failed"
                /\ queue_obj' = [queue_obj EXCEPT ![t] = None]
                /\ Return(t)
                /\ UNCHANGED lstream
    /\ UNCHANGED <<recording, stream, lst, keys, frames, nalloc, closes,
                   queues, cb, tasks, ncalls, enq, flipped, cbraised>>

\* line 972: state["stream"] = stream
start_recording_l972(t) ==
    /\ At(t, "l972")
    /\ stream' = lstream[t]
    /\ Goto(t, "l973")
    /\ UNCHANGED <<recording, AUDIO_QUEUE, lst, keys, locals, objs, cb, ext,
                   ncalls, hist>>

\* lines 973-977: state["recording"] = True; notify("Recording started.")
start_recording_l973(t) ==
    /\ At(t, "l973")
    /\ recording' = TRUE
    /\ notes' = [notes EXCEPT !["started"] = @ + 1]
    /\ last' = "started"
    /\ queue_obj' = [queue_obj EXCEPT ![t] = None]
    /\ lstream' = [lstream EXCEPT ![t] = None]
    /\ Return(t)
    /\ UNCHANGED <<stream, AUDIO_QUEUE, lst, keys, frames, objs, cb, tasks,
                   ncalls, enq, flipped, cbraised>>

start_recording(t) ==
    \/ start_recording_l956(t)
    \/ start_recording_l961(t)
    \/ start_recording_l963(t)
    \/ start_recording_l972(t)
    \/ start_recording_l973(t)

\* ----------------------------------------------------------- stop_recording
\* stop_recording without the test of line 985
stop_recording_l985_nocheck(t) ==
    /\ At(t, "l985")
    /\ Goto(t, "l988")
    /\ UNCHANGED <<glob, lst, keys, locals, objs, cb, ext, ncalls, hist>>

\* line 985: if not state.get("recording"): return
stop_recording_l985(t) ==
    /\ At(t, "l985")
    /\ IF recording
         THEN Goto(t, "l988") /\ UNCHANGED last
         ELSE Return(t) /\ last' = "stop_noop"
    /\ UNCHANGED <<glob, lst, keys, locals, objs, cb, ext, ncalls,
                   enq, flipped, cbraised>>

\* line 988: queue_obj = AUDIO_QUEUE
stop_recording_l988(t) ==
    /\ At(t, "l988")
    /\ queue_obj' = [queue_obj EXCEPT ![t] = AUDIO_QUEUE]
    /\ Goto(t, "l989")
    /\ UNCHANGED <<glob, lst, keys, lstream, frames, objs, cb, ext, ncalls, hist>>

\* line 989: AUDIO_QUEUE = None
stop_recording_l989(t) ==
    /\ At(t, "l989")
    /\ AUDIO_QUEUE' = None
    /\ Goto(t, "l990")
    /\ UNCHANGED <<recording, stream, lst, keys, locals, objs, cb, ext,
                   ncalls, hist>>

\* line 990: stream = state.get("stream")
stop_recording_l990(t) ==
    /\ At(t, "l990")
    /\ lstream' = [lstream EXCEPT ![t] = stream]
    /\ Goto(t, "l991")
    /\ UNCHANGED <<glob, lst, keys, queue_obj, frames, objs, cb, ext, ncalls, hist>>

\* line 991: state["recording"] = False
stop_recording_l991(t) ==
    /\ At(t, "l991")
    /\ recording' = FALSE
    /\ flipped' = flipped \cup ({queue_obj[t]} \ {None})
    /\ Goto(t, "l992")
    /\ UNCHANGED <<stream, AUDIO_QUEUE, lst, keys, locals, objs, cb, ext,
                   ncalls, enq, last, cbraised>>

\* lines 992-995: state["stream"] = None; the tray is refreshed; if stream: ...
stop_recording_l992(t) ==
    /\ At(t, "l992")
    /\ stream' = None
    /\ Goto(t, IF lstream[t] # None THEN "l997" ELSE "l1000")
    /\ UNCHANGED <<recording, AUDIO_QUEUE, lst, keys, locals, objs, cb, ext,
                   ncalls, hist>>

\* a stream.stop() that returns while the stream's callback is still running
stop_recording_l997_nowait(t) ==
    /\ At(t, "l997")
    /\ IF sstatus[lstream[t]] = "active"
         THEN sstatus' = [sstatus EXCEPT ![lstream[t]] = "stopped"]
         ELSE UNCHANGED sstatus
    /\ Goto(t, "l998")
    /\ UNCHANGED <<glob, lst, keys, locals, nalloc, closes, queues, cb, ext,
                   ncalls, hist>>

\* line 997: stream.stop() returns once the stream's callback has returned;
\* on a stream that is not running it does nothing (sounddevice ignores the
\* error by default)
stop_recording_l997(t) ==
    /\ At(t, "l997")
    /\ IF sstatus[lstream[t]] = "active"
         THEN /\ cbpc[lstream[t]] = "idle"
              /\ sstatus' = [sstatus EXCEPT ![lstream[t]] = "stopped"]
         ELSE UNCHANGED sstatus
    /\ Goto(t, "l998")
    /\ UNCHANGED <<glob, lst, keys, locals, nalloc, closes, queues, cb, ext,
                   ncalls, hist>>

\* line 998: stream.close()
stop_recording_l998(t) ==
    /\ At(t, "l998")
    /\ sstatus' = [sstatus EXCEPT ![lstream[t]] = "closed"]
    /\ closes' = [closes EXCEPT ![lstream[t]] = IF @ < 2 THEN @ + 1 ELSE @]
    /\ Goto(t, "l1000")
    /\ UNCHANGED <<glob, lst, keys, locals, nalloc, queues, cb, ext, ncalls, hist>>

\* lines 1000-1001: if queue_obj is not None: while not queue_obj.empty()
stop_recording_l1000(t) ==
    /\ At(t, "l1000")
    /\ Goto(t, IF queue_obj[t] # None /\ queues[queue_obj[t]] # <<>>
                 THEN "l1002" ELSE "l1003")
    /\ UNCHANGED <<glob, lst, keys, locals, objs, cb, ext, ncalls, hist>>

\* line 1002: frames.append(queue_obj.get()); get blocks on an empty queue
stop_recording_l1002(t) ==
    /\ At(t, "l1002")
    /\ queues[queue_obj[t]] # <<>>
    /\ frames' = [frames EXCEPT ![t] = Append(@, Head(queues[queue_obj[t]]))]
    /\ queues' = [queues EXCEPT ![queue_obj[t]] = Tail(@)]
    /\ Goto(t, "l1000")
    /\ UNCHANGED <<glob, lst, keys, queue_obj, lstream, nalloc, sstatus, closes,
                   cb, ext, ncalls, hist>>

\* stop_recording without the "if not frames" test of line 1003
stop_recording_l1003_always(t) ==
    /\ At(t, "l1003")
    /\ tasks' = Append(tasks, [q |-> queue_obj[t], audio |-> frames[t]])
    /\ last' = "dispatched"
    /\ frames' = [frames EXCEPT ![t] = <<>>]
    /\ queue_obj' = [queue_obj EXCEPT ![t] = None]
    /\ lstream' = [lstream EXCEPT ![t] = None]
    /\ Return(t)
    /\ UNCHANGED <<glob, lst, keys, objs, cb, notes, ncalls, enq, flipped, cbraised>>

\* lines 1003-1009: notify("No audio captured.") on no frames, else start the
\* transcribe_audio thread with the concatenated frames
stop_recording_l1003(t) ==
    /\ At(t, "l1003")
    /\ IF frames[t] = <<>>
         THEN /\ notes' = [notes EXCEPT !["noaudio"] = @ + 1]
              /\ last' = "noaudio"
              /\ UNCHANGED tasks
         ELSE /\ tasks' = Append(tasks, [q |-> queue_obj[t], audio |-> frames[t]])
              /\ last' = "dispatched"
              /\ UNCHANGED notes
    /\ frames' = [frames EXCEPT ![t] = <<>>]
    /\ queue_obj' = [queue_obj EXCEPT ![t] = None]
    /\ lstream' = [lstream EXCEPT ![t] = None]
    /\ Return(t)
    /\ UNCHANGED <<glob, lst, keys, objs, cb, ncalls, enq, flipped, cbraised>>

stop_recording(t) ==
    \/ stop_recording_l985(t)
    \/ stop_recording_l988(t)
    \/ stop_recording_l989(t)
    \/ stop_recording_l990(t)
    \/ stop_recording_l991(t)
    \/ stop_recording_l992(t)
    \/ stop_recording_l997(t)
    \/ stop_recording_l998(t)
    \/ stop_recording_l1000(t)
    \/ stop_recording_l1002(t)
    \/ stop_recording_l1003(t)

\* ----------------------------------------------------------------- shutdown
\* lines 2338-2340: if hotkey_listener: hotkey_listener.stop()
shutdown_l2338(t) ==
    /\ At(t, "l2338")
    /\ hotkey_listener' = IF hotkey_listener = "unset" THEN "unset" ELSE "stopped"
    /\ Goto(t, "l2341")
    /\ UNCHANGED <<glob, capture_listener, hotkey_capture_active, icon_ready,
                   cap, boot, cfgs, keys, locals, objs, cb, ext, ncalls, hist>>

\* lines 2341-2343: if capture_listener: capture_listener.stop()
shutdown_l2341(t) ==
    /\ At(t, "l2341")
    /\ capture_listener' = IF capture_listener = "unset" THEN "unset" ELSE "stopped"
    /\ Goto(t, "l2347")
    /\ UNCHANGED <<glob, hotkey_listener, hotkey_capture_active, icon_ready,
                   cap, boot, cfgs, keys, locals, objs, cb, ext, ncalls, hist>>

\* lines 2344-2359: the settings window and the tray are torn down, icon_ready = False
shutdown_l2347(t) ==
    /\ At(t, "l2347")
    /\ icon_ready' = FALSE
    /\ pc' = [pc EXCEPT ![t] = "idle"]
    /\ caller' = [caller EXCEPT ![t] = "none"]
    /\ UNCHANGED <<glob, hotkey_listener, capture_listener,
                   hotkey_capture_active, cap, boot, cfgs, keys, locals, objs,
                   cb, ext, ncalls, hist>>

shutdown(t) ==
    \/ shutdown_l2338(t)
    \/ shutdown_l2341(t)
    \/ shutdown_l2347(t)

\* ------------------------------------------------------------------ callers
\* thread t calls o: toggle_recording (lines 1013-1016, which reads
\* state["recording"] to choose between stop_recording and start_recording),
\* stop_recording, or shutdown (whose first statement, line 2337, calls
\* stop_recording)
Call(t, o) ==
    /\ pc[t] = "idle" /\ ncalls < MaxCalls
    /\ ncalls' = ncalls + 1
    /\ pc' = [pc EXCEPT ![t] = IF o = "toggle" /\ ~recording THEN "l956" ELSE "l985"]
    /\ caller' = [caller EXCEPT ![t] = o]
    /\ UNCHANGED <<glob, locals, objs, cb, ext, hist>>

\* the listener thread as the recording session sees it: on_press calls
\* stop_recording for Esc while recording (lines 767-768) and
\* toggle_recording for the hotkey (line 786)
hotkey_call ==
    /\ hotkey_listener = "running"
    /\ \/ Call("hotkey", "toggle")
       \/ recording /\ Call("hotkey", "on_press")
    /\ UNCHANGED <<lst, keys>>

\* the tray menu: "Start/Stop Recording" (lines 2134-2137, 2177) and
\* "Quit" (line 2273)
tray_call ==
    /\ icon_ready /\ pc["signal"] = "idle"
    /\ \/ Call("tray", "toggle")
       \/ Call("tray", "shutdown")
    /\ UNCHANGED <<lst, keys>>

\* SIGINT / SIGTERM (lines 2362-2364)
signal_call == Call("signal", "shutdown") /\ UNCHANGED <<lst, keys>>

\* ------------------------------------------------------ the hotkey listener
\* line 741: MODIFIER_LOOKUP.get(key), over lines 629-638
modifier_name(k) ==
    CASE k \in {"ctrl_l", "ctrl_r"} -> "CTRL"
      [] k = "shift" -> "SHIFT"
      [] k = "alt" -> "ALT"
      [] k = "cmd" -> "SUPER"
      [] OTHER -> NoName

\* lines 730-738: the name of a function key, the upper-cased character of a
\* character key (the one character of the sharp s has the two-character
\* upper case "SS"), None for any other key
event_to_token(k) ==
    CASE k = "f9" -> F9
      [] k = "a" -> <<"A">>
      [] k = "plus" -> <<"+">>
      [] k = "sz" -> <<"S", "S">>
      [] OTHER -> NoToken

\* the handler makes no call: the recording session is left alone
NoCall == UNCHANGED <<glob, pc, caller, locals, objs, cb, ext, ncalls, hist>>

\* on_press without the "token in active_tokens" test of lines 782-783
on_press_norepeat(k) ==
    /\ hotkey_listener = "running" /\ pc["hotkey"] = "idle"
    /\ held' = held \cup {k}
    /\ UNCHANGED <<lst, HOTKEY_KEY>>
    /\ IF recording /\ k = "esc"
         THEN /\ Call("hotkey", "on_press")
              /\ UNCHANGED <<active_modifiers, active_tokens, firedKeys>>
         ELSE IF hotkey_capture_active
         THEN NoCall /\ UNCHANGED <<active_modifiers, active_tokens, firedKeys>>
         ELSE IF modifier_name(k) # NoName
         THEN /\ active_modifiers' = active_modifiers \cup {modifier_name(k)}
              /\ NoCall /\ UNCHANGED <<active_tokens, firedKeys>>
         ELSE IF \/ event_to_token(k) = NoToken
                 \/ event_to_token(k) # HOTKEY_KEY[2]
         THEN NoCall /\ UNCHANGED <<active_modifiers, active_tokens, firedKeys>>
         ELSE /\ active_tokens' = active_tokens \cup {event_to_token(k)}
              /\ UNCHANGED active_modifiers
              /\ IF HOTKEY_KEY[1] \subseteq active_modifiers
                   THEN Call("hotkey", "toggle") /\ firedKeys' = firedKeys \cup {k}
                   ELSE NoCall /\ UNCHANGED firedKeys

\* on_press with the hotkey_capture_active test of lines 770-771 made before
\* the escape test of lines 767-769
on_press_capturefirst(k) ==
    /\ hotkey_listener = "running" /\ pc["hotkey"] = "idle"
    /\ held' = held \cup {k}
    /\ UNCHANGED <<lst, HOTKEY_KEY>>
    /\ IF hotkey_capture_active
         THEN NoCall /\ UNCHANGED <<active_modifiers, active_tokens, firedKeys>>
         ELSE IF recording /\ k = "esc"
         THEN /\ Call("hotkey", "on_press")
              /\ UNCHANGED <<active_modifiers, active_tokens, firedKeys>>
         ELSE IF modifier_name(k) # NoName
         THEN /\ active_modifiers' = active_modifiers \cup {modifier_name(k)}
              /\ NoCall /\ UNCHANGED <<active_tokens, firedKeys>>
         ELSE IF \/ event_to_token(k) = NoToken
                 \/ event_to_token(k) # HOTKEY_KEY[2]
                 \/ event_to_token(k) \in active_tokens
         THEN NoCall /\ UNCHANGED <<active_modifiers, active_tokens, firedKeys>>
         ELSE /\ active_tokens' = active_tokens \cup {event_to_token(k)}
              /\ UNCHANGED active_modifiers
              /\ IF HOTKEY_KEY[1] \subseteq active_modifiers
                   THEN Call("hotkey", "toggle") /\ firedKeys' = firedKeys \cup {k}
                   ELSE NoCall /\ UNCHANGED firedKeys

\* on_press without the hotkey_capture_active test of lines 770-771
on_press_nocapture(k) ==
    /\ hotkey_listener = "running" /\ pc["hotkey"] = "idle"
    /\ held' = held \cup {k}
    /\ UNCHANGED <<lst, HOTKEY_KEY>>
    /\ IF recording /\ k = "esc"
         THEN /\ Call("hotkey", "on_press")
              /\ UNCHANGED <<active_modifiers, active_tokens, firedKeys>>
         ELSE IF modifier_name(k) # NoName
         THEN /\ active_modifiers' = active_modifiers \cup {modifier_name(k)}
              /\ NoCall /\ UNCHANGED <<active_tokens, firedKeys>>
         ELSE IF \/ event_to_token(k) = NoToken
                 \/ event_to_token(k) # HOTKEY_KEY[2]
                 \/ event_to_token(k) \in active_tokens
         THEN NoCall /\ UNCHANGED <<active_modifiers, active_tokens, firedKeys>>
         ELSE /\ active_tokens' = active_tokens \cup {event_to_token(k)}
              /\ UNCHANGED active_modifiers
              /\ IF HOTKEY_KEY[1] \subseteq active_modifiers
                   THEN Call("hotkey", "toggle") /\ firedKeys' = firedKeys \cup {k}
                   ELSE NoCall /\ UNCHANGED firedKeys

\* lines 766-786: on_press(key), for a key-down (a press, or the auto-repeat of
\* a key that is held) delivered to the running listener
on_press(k) ==
    /\ hotkey_listener = "running" /\ pc["hotkey"] = "idle"
    /\ held' = held \cup {k}
    /\ UNCHANGED <<lst, HOTKEY_KEY>>
    /\ IF recording /\ k = "esc"
         THEN /\ Call("hotkey", "on_press")
              /\ UNCHANGED <<active_modifiers, active_tokens, firedKeys>>
         ELSE IF hotkey_capture_active
         THEN NoCall /\ UNCHANGED <<active_modifiers, active_tokens, firedKeys>>
         ELSE IF modifier_name(k) # NoName
         THEN /\ active_modifiers' = active_modifiers \cup {modifier_name(k)}
              /\ NoCall /\ UNCHANGED <<active_tokens, firedKeys>>
         ELSE IF \/ event_to_token(k) = NoToken
                 \/ event_to_token(k) # HOTKEY_KEY[2]
                 \/ event_to_token(k) \in active_tokens
         THEN NoCall /\ UNCHANGED <<active_modifiers, active_tokens, firedKeys>>
         ELSE /\ active_tokens' = active_tokens \cup {event_to_token(k)}
              /\ UNCHANGED active_modifiers
              /\ IF HOTKEY_KEY[1] \subseteq active_modifiers
                   THEN Call("hotkey", "toggle") /\ firedKeys' = firedKeys \cup {k}
                   ELSE NoCall /\ UNCHANGED firedKeys

\* lines 788-796: on_release(key), for the key-up of a held key
on_release(k) ==
    /\ hotkey_listener = "running" /\ pc["hotkey"] = "idle"
    /\ k \in held
    /\ held' = held \ {k}
    /\ firedKeys' = firedKeys \ {k}
    /\ IF hotkey_capture_active
         THEN UNCHANGED <<active_modifiers, active_tokens>>
         ELSE /\ active_modifiers' = active_modifiers \ {modifier_name(k)}
              /\ active_tokens' = active_tokens \ {event_to_token(k)}
    /\ NoCall /\ UNCHANGED <<lst, HOTKEY_KEY>>

\* lines 1502-1566, called from the settings window (line 1729): capture_hotkey
\* sets state["hotkey_capture_active"] and starts the capture listener (when
\* the listener cannot be started the handler of lines 1730-1737 undoes the call)
capture_hotkey ==
    /\ pc["tray"] = "idle" /\ pc["signal"] = "idle" /\ icon_ready
    /\ mpc = "running" /\ source_ok
    /\ capture_listener # "running" /\ ~cap_alive /\ cpc = "idle"
    /\ capture_listener' = "running"
    /\ hotkey_capture_active' = TRUE
    /\ capture_modifiers' = {} /\ capture_done' = FALSE
    /\ cap_alive' = TRUE /\ finals' = <<>>
    /\ NoCall
    /\ UNCHANGED <<hotkey_listener, icon_ready, cpc, boot, cfgs, keys>>

\* lines 1889-1901: closing the settings window cancels the capture
close_window ==
    /\ pc["tray"] = "idle" /\ pc["signal"] = "idle" /\ icon_ready
    /\ mpc = "running"
    /\ capture_listener = "running"
    /\ capture_listener' = "unset"
    /\ hotkey_capture_active' = FALSE
    /\ NoCall
    /\ UNCHANGED <<hotkey_listener, icon_ready, cap, boot, cfgs, keys>>

\* the capture listener's thread ends some time after the listener was stopped
capture_exit ==
    /\ cap_alive /\ cpc = "idle" /\ capture_listener # "running"
    /\ cap_alive' = FALSE
    /\ NoCall
    /\ UNCHANGED <<hotkey_listener, capture_listener, hotkey_capture_active,
                   icon_ready, capture_modifiers, capture_done, cpc, finals,
                   boot, cfgs, keys>>

\* what opening the key-event source in start_hotkey_listener may come to
\* (lines 798-800, which no handler surrounds): the listener runs, or the
\* constructor or start() raises, or the listener's thread fails on its own
StartOutcomes == IF source_ok THEN {"ok"} ELSE {"raised", "dead"}

\* lines 757-801: start_hotkey_listener() stops the listener there is, makes the
\* sets of a new one and starts it
start_hotkey_listener(outcome) ==
    /\ active_modifiers' = {} /\ active_tokens' = {}
    /\ hotkey_listener' = CASE outcome = "ok" -> "running"
                            [] outcome = "raised" -> "unset"
                            [] OTHER -> "dead"

\* update_hotkey_binding storing the token and the modifiers as they come,
\* without lines 1571-1572
update_hotkey_binding_raw(modifiers, token, outcome) ==
    /\ HOTKEY_KEY' = <<modifiers, token>>
    /\ cfg_hotkey' = hotkey_to_config(<<modifiers, token>>)
    /\ persisted' = <<modifiers, token>>
    /\ shape' = Saved
    /\ start_hotkey_listener(outcome)
    /\ raised' = IF outcome = "raised"
                   THEN raised \cup {"start_hotkey_listener", "update_hotkey_binding"}
                   ELSE raised

\* lines 1569-1579: update_hotkey_binding(modifiers, token), with the
\* start_hotkey_listener() it ends with
update_hotkey_binding(modifiers, token, outcome) ==
    LET normalized_token == IF normalize_key_token(token) = NoToken
                              THEN F9 ELSE normalize_key_token(token)
        valid_mods == {mod \in modifiers : mod \in MODIFIER_MAP}
    IN  /\ HOTKEY_KEY' = <<valid_mods, normalized_token>>
        /\ cfg_hotkey' = hotkey_to_config(<<valid_mods, normalized_token>>)
        /\ persisted' = <<valid_mods, normalized_token>>
        /\ shape' = Saved
        /\ start_hotkey_listener(outcome)
        /\ raised' = IF outcome = "raised"
                       THEN raised \cup {"start_hotkey_listener", "update_hotkey_binding"}
                       ELSE raised

\* _on_press with a finalize_hotkey that does not test capture_done (line 1523)
_on_press_nodone(k) ==
    /\ cap_alive /\ cpc = "idle"
    /\ NoCall /\ UNCHANGED <<icon_ready, mpc, source_ok, pure, held, firedKeys>>
    /\ IF modifier_name(k) # NoName
         THEN /\ capture_modifiers' = capture_modifiers \cup {modifier_name(k)}
              /\ UNCHANGED <<hotkey_listener, capture_listener, hotkey_capture_active,
                             capture_done, cpc, cap_alive, finals, raised, cfgs,
                             HOTKEY_KEY, active_modifiers, active_tokens>>
         ELSE IF event_to_token(k) = NoToken
         THEN UNCHANGED <<hotkey_listener, capture_listener, hotkey_capture_active,
                          capture_modifiers, capture_done, cpc, cap_alive, finals,
                          raised, cfgs, HOTKEY_KEY, active_modifiers, active_tokens>>
         ELSE \E outcome \in StartOutcomes :
                /\ capture_done' = TRUE
                /\ finals' = Append(finals, event_to_token(k))
                /\ update_hotkey_binding(capture_modifiers, event_to_token(k), outcome)
                /\ cpc' = IF outcome = "raised" THEN "idle" ELSE "l1527"
                /\ cap_alive' = (outcome # "raised")
                /\ UNCHANGED <<capture_listener, hotkey_capture_active,
                               capture_modifiers>>

\* lines 1548-1555 with finalize_hotkey up to line 1526: _on_press(key) of the
\* capture listener; an exception that leaves the callback ends the thread
_on_press(k) ==
    /\ cap_alive /\ cpc = "idle"
    /\ NoCall /\ UNCHANGED <<icon_ready, mpc, source_ok, pure, held, firedKeys>>
    /\ IF modifier_name(k) # NoName
         THEN /\ capture_modifiers' = capture_modifiers \cup {modifier_name(k)}
              /\ UNCHANGED <<hotkey_listener, capture_listener, hotkey_capture_active,
                             capture_done, cpc, cap_alive, finals, raised, cfgs,
                             HOTKEY_KEY, active_modifiers, active_tokens>>
         ELSE IF event_to_token(k) = NoToken \/ capture_done
         THEN UNCHANGED <<hotkey_listener, capture_listener, hotkey_capture_active,
                          capture_modifiers, capture_done, cpc, cap_alive, finals,
                          raised, cfgs, HOTKEY_KEY, active_modifiers, active_tokens>>
         ELSE \E outcome \in StartOutcomes :
                /\ capture_done' = TRUE
                /\ finals' = Append(finals, event_to_token(k))
                /\ update_hotkey_binding(capture_modifiers, event_to_token(k), outcome)
                /\ cpc' = IF outcome = "raised" THEN "idle" ELSE "l1527"
                /\ cap_alive' = (outcome # "raised")
                /\ UNCHANGED <<capture_listener, hotkey_capture_active,
                               capture_modifiers>>

\* lines 1527-1546: finalize_hotkey, after update_hotkey_binding has returned
finalize_hotkey_l1527 ==
    /\ cpc = "l1527"
    /\ hotkey_capture_active' = FALSE
    /\ capture_listener' = "unset"
    /\ cpc' = "idle"
    /\ NoCall
    /\ UNCHANGED <<hotkey_listener, icon_ready, capture_modifiers, capture_done,
                   cap_alive, finals, boot, cfgs, keys>>

\* lines 1557-1562: _on_release(key) of the capture listener
_on_release(k) ==
    /\ cap_alive /\ cpc = "idle"
    /\ capture_modifiers' = capture_modifiers \ {modifier_name(k)}
    /\ hotkey_capture_active' = IF capture_done THEN FALSE ELSE hotkey_capture_active
    /\ NoCall
    /\ UNCHANGED <<hotkey_listener, capture_listener, icon_ready, capture_done,
                   cpc, cap_alive, finals, boot, cfgs, keys>>

\* lines 1739-1745: the Reset button of the settings window, which is
\* insensitive while a capture runs
reset_hotkey ==
    /\ pc["tray"] = "idle" /\ pc["signal"] = "idle" /\ icon_ready
    /\ mpc = "running"
    /\ capture_listener # "running" /\ cpc = "idle"
    /\ \E outcome \in StartOutcomes : update_hotkey_binding({}, F9, outcome)
    /\ NoCall
    /\ UNCHANGED <<capture_listener, hotkey_capture_active, icon_ready, cap,
                   mpc, source_ok, pure, held, firedKeys>>

\* line 2396: main() calls start_hotkey_listener()
main_l2396 ==
    /\ mpc = "l2396"
    /\ \E outcome \in StartOutcomes :
         /\ start_hotkey_listener(outcome)
         /\ mpc' = IF outcome = "raised" THEN "raised" ELSE "running"
         /\ raised' = IF outcome = "raised"
                        THEN raised \cup {"start_hotkey_listener", "main"}
                        ELSE raised
    /\ NoCall
    /\ UNCHANGED <<capture_listener, hotkey_capture_active, icon_ready, cap,
                   source_ok, pure, cfgs, HOTKEY_KEY, held, firedKeys>>

\* whether a new connection to the key-event source can be opened changes
source_change ==
    /\ source_ok' = ~source_ok
    /\ NoCall /\ UNCHANGED pure
    /\ UNCHANGED <<hotkey_listener, capture_listener, hotkey_capture_active,
                   icon_ready, cap, mpc, raised, cfgs, keys>>

\* ------------------------------------------------------- the specifications
Next ==
    \/ hotkey_call
    \/ tray_call
    \/ signal_call
    \/ capture_hotkey
    \/ close_window
    \/ capture_exit
    \/ \E t \in Threads : start_recording(t)
    \/ \E t \in Threads : stop_recording(t)
    \/ \E t \in Threads : shutdown(t)
    \/ \E s \in Sessions : recording_callback(s)

Spec == Init /\ [][Next]_vars

\* the hotkey listener's thread and the signal handler: a recording is
\* toggled by the hotkey while SIGINT / SIGTERM shuts the program down
NextStops ==
    \/ hotkey_call
    \/ signal_call
    \/ start_recording("hotkey")
    \/ stop_recording("hotkey")
    \/ stop_recording("signal")
    \/ shutdown("signal")
    \/ \E s \in Sessions : recording_callback(s)

\* the threads are scheduled: a control thread that can take its next step in
\* start_recording, stop_recording or shutdown takes it, and so does a
\* callback of the audio subsystem; a blocking queue.get() (line 1002) is no
\* step until the queue holds an element
SpecStops ==
    /\ Init /\ [][NextStops]_vars
    /\ WF_vars(start_recording("hotkey"))
    /\ WF_vars(stop_recording("hotkey"))
    /\ WF_vars(stop_recording("signal"))
    /\ WF_vars(shutdown("signal"))
    /\ \A s \in Sessions : WF_vars(recording_callback(s))

\* no control thread is inside a call
AllIdle == \A t \in Threads : pc[t] = "idle"

\* the control operations serialized: a call is made only when no other call
\* is in progress; the audio callbacks still run concurrently with it
NextSerial ==
    \/ AllIdle /\ hotkey_call
    \/ AllIdle /\ tray_call
    \/ AllIdle /\ signal_call
    \/ capture_hotkey
    \/ close_window
    \/ capture_exit
    \/ \E t \in Threads : start_recording(t)
    \/ \E t \in Threads : stop_recording(t)
    \/ \E t \in Threads : shutdown(t)
    \/ \E s \in Sessions : recording_callback(s)

SpecSerial == Init /\ [][NextSerial]_vars

\* the key events and what the listener thread does for them
NextKeys ==
    \/ \E k \in Keys : on_press(k)
    \/ \E k \in Keys : on_release(k)
    \/ capture_hotkey
    \/ close_window
    \/ capture_exit
    \/ start_recording("hotkey")
    \/ stop_recording("hotkey")
    \/ \E s \in Sessions : recording_callback(s)

SpecKeys == InitKeys /\ [][NextKeys]_vars


\* the two control keys and the key F9
VariantKeys == {"ctrl_l", "ctrl_r", "f9"}

\* the hotkey listener alone, fed the events of these keys: no capture is
\* started, so the listener is never restarted and never ignores an event
NextVariants ==
    \/ \E k \in VariantKeys : on_press(k)
    \/ \E k \in VariantKeys : on_release(k)
    \/ start_recording("hotkey")
    \/ stop_recording("hotkey")
    \/ \E s \in Sessions : recording_callback(s)

SpecVariants == InitKeys /\ [][NextVariants]_vars

\* the keys of the capture model
CaptureKeys == {"ctrl_l", "a", "esc", "sz"}

\* line 2386: the bindings main() may have parsed from the configuration
InitCapture == InitState /\ \E b \in {<<{}, <<"A">>>>, <<{"CTRL"}, <<"A">>>>} : Configured(b)

\* the hotkey listener and the capture listener, each fed the key events, and
\* the settings window that starts and cancels captures and resets the binding
NextCapture ==
    \/ \E k \in CaptureKeys : on_press(k)
    \/ \E k \in CaptureKeys : on_release(k)
    \/ \E k \in CaptureKeys : _on_press(k)
    \/ \E k \in CaptureKeys : _on_release(k)
    \/ finalize_hotkey_l1527
    \/ capture_hotkey
    \/ close_window
    \/ capture_exit
    \/ reset_hotkey
    \/ start_recording("hotkey")
    \/ stop_recording("hotkey")
    \/ \E s \in Sessions : recording_callback(s)

SpecCapture == InitCapture /\ [][NextCapture]_vars

\* the keys of the start-up model
StartKeys == {"ctrl_l", "a"}

\* main() is about to start the hotkey listener (line 2396); the key-event
\* source can be opened or not
InitStart ==
    /\ InitCommon
    /\ hotkey_listener = "unset" /\ mpc = "l2396" /\ source_ok \in BOOLEAN
    /\ Configured(<<{}, F9>>)

\* every caller of start_hotkey_listener: main(), and update_hotkey_binding
\* from a capture's finalization and from the Reset button
NextStart ==
    \/ main_l2396
    \/ source_change
    \/ capture_hotkey
    \/ close_window
    \/ capture_exit
    \/ \E k \in StartKeys : _on_press(k)
    \/ \E k \in StartKeys : _on_release(k)
    \/ finalize_hotkey_l1527
    \/ reset_hotkey

SpecStart == InitStart /\ [][NextStart]_vars

\* ---------------------------------------------- the configuration and restarts
\* str.lower(), for the characters of the model
lower_char(c) ==
    CASE c = "A" -> "a" [] c = "C" -> "c" [] c = "T" -> "t" [] c = "R" -> "r"
      [] c = "L" -> "l" [] c = "S" -> "s" [] c = "H" -> "h" [] c = "I" -> "i"
      [] c = "F" -> "f" [] c = "U" -> "u" [] c = "P" -> "p" [] c = "E" -> "e"
      [] c = "Y" -> "y" [] OTHER -> c

lower(s) == [i \in 1..Len(s) |-> lower_char(s[i])]

\* the ways a user's edit of the file spells a binding: modifiers in the order
\* CTRL, SHIFT, ALT, SUPER or the reverse, upper or lower case, parts bare or
\* padded with blanks, with or without a modifier name the program does not know
Edits == [kind : {"edited"}, rev : BOOLEAN, lower : BOOLEAN, pad : BOOLEAN,
          extra : BOOLEAN]

\* the bindings a user's edit spells
EditBindings ==
    {<<{}, F9>>, <<{"CTRL", "ALT"}, F9>>, <<{"CTRL", "SHIFT"}, <<"A">>>>,
     <<{"SUPER"}, <<"F", "1", "2">>>>,
     <<{"CTRL", "SHIFT", "ALT", "SUPER"}, <<"F", "2", "4">>>>}

\* the text of cfg["hotkey"] that spells binding b the way e
Render(b, e) ==
    LET order == IF e.rev THEN <<"SUPER", "ALT", "SHIFT", "CTRL">>
                          ELSE <<"CTRL", "SHIFT", "ALT", "SUPER">>
        mods == SelectSeq(order, LAMBDA m : m \in b[1])
        names == (IF e.extra THEN <<<<"H", "Y", "P", "E", "R">>>> ELSE <<>>)
                   \o [i \in 1..Len(mods) |-> Spelling[mods[i]]] \o <<b[2]>>
        cased == [i \in 1..Len(names) |->
                    IF e.lower THEN lower(names[i]) ELSE names[i]]
        padded == [i \in 1..Len(cased) |->
                     IF e.pad THEN <<" ">> \o cased[i] \o <<" ">> ELSE cased[i]]
    IN  join(padded, "+")

\* texts without a usable key token: empty, blank, no key after the last "+",
\* a last part that is neither F1 .. F24 nor one character
Junk ==
    {<<>>,
     <<" ">>,
     <<" ", " ">>,
     <<"C", "T", "R", "L", "+">>,
     <<"c", "t", "r", "l", " ", "+", " ">>,
     <<"+">>,
     <<"F", "2", "5">>,
     <<"F", "0">>,
     <<"A", "B">>,
     <<"C", "T", "R", "L", "+", "A", "L", "T">>,
     <<"C", "T", "R", "L", "+", "F", "2", "5">>,
     <<"s", "h", "i", "f", "t", "+", "a", "b">>,
     <<"H", "Y", "P", "E", "R">>}

NotABinding == [kind |-> "junk", rev |-> FALSE, lower |-> FALSE, pad |-> FALSE,
                extra |-> FALSE]

\* lines 584-592: what load_config() may find in the file as cfg["hotkey"],
\* with the binding it spells and the way it spells it
ConfigFiles ==
    {<<Render(b, e), b, e>> : b \in EditBindings, e \in Edits}
      \cup {<<text, <<{}, F9>>, NotABinding>> : text \in Junk}

\* line 2386: HOTKEY_KEY = parse_hotkey(cfg.get("hotkey"))
main_l2386 ==
    /\ mpc = "l2386"
    /\ HOTKEY_KEY' = parse_hotkey(cfg_hotkey)
    /\ mpc' = "l2396"
    /\ NoCall
    /\ UNCHANGED <<hotkey_listener, capture_listener, hotkey_capture_active,
                   icon_ready, cap, source_ok, pure, raised, cfgs,
                   active_modifiers, active_tokens, held, firedKeys>>

\* the program ends and is started again (lines 298-311, 2377-2386): the
\* globals are those of the import and load_config() reads the file, which
\* holds what save_config() wrote last or what the user has put there since
restart ==
    /\ mpc = "running" /\ cpc = "idle"
    /\ pc["hotkey"] = "idle" /\ pc["tray"] = "idle" /\ pc["signal"] = "idle"
    /\ ~recording
    /\ \E f \in ConfigFiles \cup {<<cfg_hotkey, persisted, shape>>} :
         cfg_hotkey' = f[1] /\ persisted' = f[2] /\ shape' = f[3]
    /\ HOTKEY_KEY' = <<{}, F9>>
    /\ hotkey_listener' = "unset" /\ capture_listener' = "unset"
    /\ hotkey_capture_active' = FALSE
    /\ capture_modifiers' = {} /\ capture_done' = FALSE /\ cap_alive' = FALSE
    /\ finals' = <<>>
    /\ active_modifiers' = {} /\ active_tokens' = {}
    /\ mpc' = "l2386"
    /\ NoCall
    /\ UNCHANGED <<icon_ready, cpc, source_ok, pure, raised, held, firedKeys>>

\* the keys of the configuration model
ParseKeys == {"ctrl_l", "shift", "alt", "cmd", "a", "plus", "sz"}

\* load_config() has read the file (line 2379) and main() is at line 2386
InitParse ==
    /\ InitCommon
    /\ hotkey_listener = "unset" /\ mpc = "l2386" /\ source_ok = TRUE
    /\ HOTKEY_KEY = <<{}, F9>>
    /\ \E f \in ConfigFiles \cup {<<F9, <<{}, F9>>, Saved>>} :
         cfg_hotkey = f[1] /\ persisted = f[2] /\ shape = f[3]

\* the life of the binding: parsed at startup, replaced by captures and
\* resets, written to the file, parsed again at the next start
NextParse ==
    \/ main_l2386
    \/ main_l2396
    \/ restart
    \/ capture_hotkey
    \/ close_window
    \/ capture_exit
    \/ \E k \in ParseKeys : _on_press(k)
    \/ \E k \in ParseKeys : _on_release(k)
    \/ finalize_hotkey_l1527
    \/ reset_hotkey

SpecParse == InitParse /\ [][NextParse]_vars

\* ------------------------------------------------------- _drop_short_runs
\* the boolean arrays of length 0 .. n (index 1 of the model is index 0 of
\* the array)
BoolArrays(n) == UNION {[1..len -> BOOLEAN] : len \in 0..n}

\* np.flatnonzero(a): the indices of the true elements, ascending
flatnonzero(a) == SelectSeq([i \in 1..Len(a) |-> i], LAMBDA i : a[i])

\* lines 1176, 1182: a[start : prev + 1] = False
clear_slice(a, start, prev) ==
    [i \in 1..Len(a) |-> IF start <= i /\ i <= prev THEN FALSE ELSE a[i]]

\* the loop of lines 1171-1180 without the test of lines 1181-1182 after it
RECURSIVE drop_loop_nolast(_, _, _, _, _, _, _)
drop_loop_nolast(indices, k, start, prev, count, cl, minlen) ==
    IF k > Len(indices)
      THEN cl
      ELSE IF indices[k] = prev + 1
      THEN drop_loop_nolast(indices, k + 1, start, indices[k], count + 1, cl, minlen)
      ELSE drop_loop_nolast(indices, k + 1, indices[k], indices[k], 1,
                            IF count < minlen THEN clear_slice(cl, start, prev) ELSE cl,
                            minlen)

\* _drop_short_runs that does not look at the last run
_drop_short_runs_nolast(m, minlen) ==
    IF minlen <= 1 THEN m
    ELSE IF flatnonzero(m) = <<>> THEN m
    ELSE drop_loop_nolast(flatnonzero(m), 2, flatnonzero(m)[1], flatnonzero(m)[1],
                          1, m, minlen)

\* lines 1171-1182: the loop over indices[1:], from element k on, and the test
\* of the last run after it
RECURSIVE drop_loop(_, _, _, _, _, _, _)
drop_loop(indices, k, start, prev, count, cl, minlen) ==
    IF k > Len(indices)
      THEN IF count < minlen THEN clear_slice(cl, start, prev) ELSE cl
      ELSE IF indices[k] = prev + 1
      THEN drop_loop(indices, k + 1, start, indices[k], count + 1, cl, minlen)
      ELSE drop_loop(indices, k + 1, indices[k], indices[k], 1,
                     IF count < minlen THEN clear_slice(cl, start, prev) ELSE cl,
                     minlen)

\* lines 1161-1183
_drop_short_runs(m, minlen) ==
    IF minlen <= 1 THEN m
    ELSE IF flatnonzero(m) = <<>> THEN m
    ELSE drop_loop(flatnonzero(m), 2, flatnonzero(m)[1], flatnonzero(m)[1],
                   1, m, minlen)

\* the program at rest: started, the default binding, no call in progress
Quiescent ==
    /\ InitGlobals
    /\ hotkey_listener = "running" /\ mpc = "running" /\ source_ok = TRUE
    /\ Configured(<<{}, F9>>)

\* a call _drop_short_runs(mask, min_len) is about to run
InitRuns ==
    /\ Quiescent
    /\ VadIdle /\ DevIdle
    /\ rpc = "l1162" /\ cleaned = <<>>
    /\ mask \in BoolArrays(MaxMask)
    /\ min_len \in 0..MaxMinLen

\* lines 1161-1183: the call runs and returns
drop_short_runs_call ==
    /\ rpc = "l1162"
    /\ cleaned' = _drop_short_runs(mask, min_len)
    /\ rpc' = "done"
    /\ UNCHANGED <<mask, min_len, vad, dev>>
    /\ UNCHANGED <<glob, lst_but_pure, keys, pc, caller, locals, objs, cb, ext,
                   ncalls, hist>>

NextRuns == drop_short_runs_call

SpecRuns == InitRuns /\ [][NextRuns]_vars

\* ---------------------------------------------------------------- apply_vad
\* samples per frame (line 1194 makes it 480; the model's frames are shorter)
FrameLen == 2

\* line 1229: cfg.get("vad_energy_floor", 0.0005); the model's RMS values are
\* whole numbers, in units of 0.0001
energy_floor == 5

\* thresholds are kept as 400 times their value in units of 0.0001, which
\* makes the ratios 0.02 (line 183, clamped at line 1231) and 0.01 (line
\* 1239) and the quarters of the percentile whole numbers
Scale == 400
energy_ratio_scaled == 8
soft_ratio_scaled == 4

Max(a, b) == IF a >= b THEN a ELSE b
Min(a, b) == IF a <= b THEN a ELSE b

\* the samples of the buffer: the whole frames, then the remainder
TotalSamples == Len(vframes) * FrameLen + vrem.size

\* line 1187: mono, each sample as its own position
mono == [i \in 1..TotalSamples |-> i]

\* line 1228: rms.max(), 0.0 for no frames
max_of(x) ==
    IF x = <<>> THEN 0
    ELSE CHOOSE v \in {x[i] : i \in 1..Len(x)} : \A i \in 1..Len(x) : x[i] <= v

\* element j of sorted(x)
kth_smallest(x, j) ==
    CHOOSE v \in {x[i] : i \in 1..Len(x)} :
      /\ Cardinality({i \in 1..Len(x) : x[i] < v}) < j
      /\ j <= Cardinality({i \in 1..Len(x) : x[i] <= v})

\* line 1235: np.percentile(x, 75), linear interpolation between the two
\* nearest ranks, times Scale
percentile75_scaled(x) ==
    LET h4 == 3 * (Len(x) - 1)
        lo == h4 \div 4
        frac4 == h4 % 4
    IN  IF frac4 = 0 THEN Scale * kth_smallest(x, lo + 1)
        ELSE Scale * kth_smallest(x, lo + 1)
               + (Scale \div 4) * frac4
                   * (kth_smallest(x, lo + 2) - kth_smallest(x, lo + 1))

\* lines 1232-1236
energy_threshold_scaled(rms) ==
    LET base == Max(energy_floor * Scale, max_of(rms) * energy_ratio_scaled)
        nonzero_rms == SelectSeq(rms, LAMBDA r : r > energy_floor)
    IN  IF nonzero_rms # <<>>
          THEN Min(base, Max(energy_floor * Scale, percentile75_scaled(nonzero_rms)))
          ELSE base

\* line 1237
energy_mask_of(rms) ==
    [i \in 1..Len(rms) |-> rms[i] * Scale >= energy_threshold_scaled(rms)]

\* lines 1239-1240
soft_threshold_scaled(rms) ==
    Max((energy_floor * Scale * 3) \div 2, max_of(rms) * soft_ratio_scaled)

\* lines 1241-1244: the soft mask, cleaned of its short runs
soft_mask_of(rms, min_energy_frames) ==
    LET soft == [i \in 1..Len(rms) |-> rms[i] * Scale >= soft_threshold_scaled(rms)]
    IN  IF \E i \in 1..Len(soft) : soft[i]
          THEN _drop_short_runs(soft, min_energy_frames)
          ELSE soft

\* int(round(ms / 30)) for the multiples of ten the settings allow
round_frames(ms) == (2 * ms + 30) \div 60

\* lines 1268-1271: np.convolve(mask, ones(2 * b + 1), mode="same") > 0; the
\* result is as long as the longer of the two arrays, centred on the shorter
dilate(m, b) ==
    LET klen == 2 * b + 1
        off == (Min(Len(m), klen) - 1) \div 2
    IN  [t \in 1..Max(Len(m), klen) |->
           \E i \in 1..Len(m) : m[i] /\ 0 <= t + off - i /\ t + off - i <= klen - 1]

\* lines 1265-1267
bridge_frames_of(c) ==
    IF Max(0, c.vad_bridge_ms) # 0 THEN round_frames(Max(0, c.vad_bridge_ms)) ELSE 0

\* lines 1290-1299: the runs of consecutive indices, as (first, last) pairs;
\* indices are the array's, counted from 0
RECURSIVE segments_loop(_, _, _, _, _)
segments_loop(voiced, k, segment_start, prev_idx, segs) ==
    IF k > Len(voiced) THEN Append(segs, <<segment_start, prev_idx>>)
    ELSE IF voiced[k] - prev_idx > 1
    THEN segments_loop(voiced, k + 1, voiced[k], voiced[k],
                       Append(segs, <<segment_start, prev_idx>>))
    ELSE segments_loop(voiced, k + 1, segment_start, voiced[k], segs)

\* lines 1276 and 1290-1299: the segments of a mask that has a true element
segments_of(m) ==
    LET voiced_indices == [i \in 1..Len(flatnonzero(m)) |-> flatnonzero(m)[i] - 1]
    IN  segments_loop(voiced_indices, 2, voiced_indices[1], voiced_indices[1], <<>>)

\* lines 1277-1279
padding_frames_of(c) == Max(1, round_frames(Max(0, c.vad_padding_ms)))

\* lines 1306-1307
start_idx_of(seg, padding_frames) == Max(0, seg[1] - padding_frames)
end_idx_of(seg, padding_frames) == Min(Len(vframes), seg[2] + padding_frames + 1)

\* the samples of frames[start_idx:end_idx], as input positions
frame_samples(start_idx, end_idx) ==
    [i \in 1..((end_idx - start_idx) * FrameLen) |-> start_idx * FrameLen + i]

\* the remainder, as input positions
remainder_flat ==
    [i \in 1..vrem.size |-> Len(vframes) * FrameLen + i]

\* the loop of lines 1305-1324 from segment k on, where the condition of
\* lines 1316-1318 for appending the remainder is taken as given by tail_ok
\* buffers_loop without the test of tail_appended at line 1315
RECURSIVE buffers_loop_everytail(_, _, _, _, _, _)
buffers_loop_everytail(segs, k, padding_frames, tail_ok, acc, tail_ks) ==
    IF k > Len(segs) THEN [buffers |-> acc, tails |-> tail_ks]
    ELSE LET start_idx == start_idx_of(segs[k], padding_frames)
             end_idx == end_idx_of(segs[k], padding_frames)
         IN  IF end_idx <= start_idx
               THEN buffers_loop_everytail(segs, k + 1, padding_frames, tail_ok,
                                           acc, tail_ks)
             ELSE IF tail_ok[k]
               THEN buffers_loop_everytail(segs, k + 1, padding_frames, tail_ok,
                                           Append(acc, frame_samples(start_idx, end_idx)
                                                         \o remainder_flat),
                                           Append(tail_ks, k))
             ELSE buffers_loop_everytail(segs, k + 1, padding_frames, tail_ok,
                                         Append(acc, frame_samples(start_idx, end_idx)),
                                         tail_ks)

RECURSIVE buffers_loop(_, _, _, _, _, _)
buffers_loop(segs, k, padding_frames, tail_ok, acc, tail_ks) ==
    IF k > Len(segs) THEN [buffers |-> acc, tails |-> tail_ks]
    ELSE LET start_idx == start_idx_of(segs[k], padding_frames)
             end_idx == end_idx_of(segs[k], padding_frames)
         IN  IF end_idx <= start_idx
               THEN buffers_loop(segs, k + 1, padding_frames, tail_ok, acc, tail_ks)
             ELSE IF tail_ok[k] /\ tail_ks = <<>>
               THEN buffers_loop(segs, k + 1, padding_frames, tail_ok,
                                 Append(acc, frame_samples(start_idx, end_idx)
                                               \o remainder_flat),
                                 Append(tail_ks, k))
             ELSE buffers_loop(segs, k + 1, padding_frames, tail_ok,
                               Append(acc, frame_samples(start_idx, end_idx)),
                               tail_ks)

\* lines 1316-1318 for segment k, that is all but "not tail_appended"
tail_condition(segs, padding_frames) ==
    [k \in 1..Len(segs) |->
       /\ vrem.size # 0
       /\ end_idx_of(segs[k], padding_frames) >= Len(vframes)
       /\ vrem.rms >= energy_floor]

\* np.concatenate(buffers)
RECURSIVE concatenate(_)
concatenate(buffers) ==
    IF buffers = <<>> THEN <<>> ELSE Head(buffers) \o concatenate(Tail(buffers))

\* apply_vad returns: what, and nothing of the call is left to run
ReturnVad(kind, pos) ==
    /\ vresult' = [kind |-> kind, pos |-> pos]
    /\ vpc' = "done"

\* the rest of the program while apply_vad runs on its background thread
VadFrame ==
    /\ UNCHANGED <<vcfg, VAD_AVAILABLE, vframes, vrem, runs, dev>>
    /\ UNCHANGED <<glob, lst_but_pure, keys, pc, caller, locals, objs, cb, ext,
                   ncalls, hist>>

\* apply_vad_l1188 without the test of line 1188
apply_vad_l1188_always ==
    /\ vpc = "l1188"
    /\ IF Len(vframes) = 0
         THEN ReturnVad("mono", mono)
         ELSE vpc' = "l1217" /\ UNCHANGED vresult
    /\ UNCHANGED <<speech_mask, combined_mask, processed_int, tails>>
    /\ VadFrame

\* lines 1187-1206: the early returns for filtering switched off and for a
\* buffer shorter than one frame
apply_vad_l1188 ==
    /\ vpc = "l1188"
    /\ IF ~vcfg.use_vad \/ ~VAD_AVAILABLE \/ Len(vframes) = 0
         THEN ReturnVad("mono", mono)
         ELSE vpc' = "l1217" /\ UNCHANGED vresult
    /\ UNCHANGED <<speech_mask, combined_mask, processed_int, tails>>
    /\ VadFrame

\* apply_vad_l1217 where a frame the classifier fails on counts as no speech
apply_vad_l1217_skip ==
    /\ vpc = "l1217"
    /\ speech_mask' = [i \in 1..Len(vframes) |-> vframes[i].is_speech = "yes"]
    /\ vpc' = "l1225"
    /\ UNCHANGED <<combined_mask, processed_int, vresult, tails>>
    /\ VadFrame

\* lines 1217-1223: the classifier is asked about each frame; an exception on
\* a frame makes apply_vad return mono
apply_vad_l1217 ==
    /\ vpc = "l1217"
    /\ IF \E i \in 1..Len(vframes) : vframes[i].is_speech = "error"
         THEN /\ ReturnVad("mono", mono)
              /\ speech_mask' =
                   [i \in 1..Len(vframes) |->
                      /\ vframes[i].is_speech = "yes"
                      /\ \A j \in 1..i : vframes[j].is_speech # "error"]
         ELSE /\ speech_mask' = [i \in 1..Len(vframes) |-> vframes[i].is_speech = "yes"]
              /\ vpc' = "l1225" /\ UNCHANGED vresult
    /\ UNCHANGED <<combined_mask, processed_int, tails>>
    /\ VadFrame

\* apply_vad_l1225 without the test of line 1247
apply_vad_l1225_noany ==
    /\ vpc = "l1225"
    /\ LET rms == [i \in 1..Len(vframes) |-> vframes[i].rms]
           energy_mask == energy_mask_of(rms)
           soft_mask == soft_mask_of(rms, Max(1, vcfg.vad_min_energy_frames))
       IN  combined_mask' = [i \in 1..Len(vframes) |->
                               speech_mask[i] \/ energy_mask[i] \/ soft_mask[i]]
    /\ vpc' = "l1265"
    /\ UNCHANGED <<speech_mask, processed_int, vresult, tails>>
    /\ VadFrame

\* lines 1225-1249: the energy masks and the combined mask
apply_vad_l1225 ==
    /\ vpc = "l1225"
    /\ LET rms == [i \in 1..Len(vframes) |-> vframes[i].rms]
           energy_mask == energy_mask_of(rms)
           soft_mask == soft_mask_of(rms, Max(1, vcfg.vad_min_energy_frames))
           combined == [i \in 1..Len(vframes) |->
                          speech_mask[i] \/ energy_mask[i] \/ soft_mask[i]]
       IN  /\ combined_mask' = combined
           /\ IF \A i \in 1..Len(combined) : ~combined[i]
                THEN ReturnVad("mono", mono)
                ELSE vpc' = "l1265" /\ UNCHANGED vresult
    /\ UNCHANGED <<speech_mask, processed_int, tails>>
    /\ VadFrame

\* lines 1265-1271: bridging
apply_vad_l1265 ==
    /\ vpc = "l1265"
    /\ combined_mask' = IF bridge_frames_of(vcfg) > 0
                          THEN dilate(combined_mask, bridge_frames_of(vcfg))
                          ELSE combined_mask
    /\ vpc' = "l1273"
    /\ UNCHANGED <<speech_mask, processed_int, vresult, tails>>
    /\ VadFrame

\* lines 1273-1274: the short runs of the bridged mask are dropped
apply_vad_l1273 ==
    /\ vpc = "l1273"
    /\ combined_mask' = IF Max(1, vcfg.vad_min_energy_frames) > 1
                          THEN _drop_short_runs(combined_mask,
                                                Max(1, vcfg.vad_min_energy_frames))
                          ELSE combined_mask
    /\ vpc' = "l1276"
    /\ UNCHANGED <<speech_mask, processed_int, vresult, tails>>
    /\ VadFrame

\* lines 1276-1329: the segments, their padded buffers and the output;
\* voiced_indices[0] raises IndexError when the mask has no true element
apply_vad_l1276 ==
    /\ vpc = "l1276"
    /\ IF flatnonzero(combined_mask) = <<>>
         THEN /\ ReturnVad("raised", <<>>)
              /\ UNCHANGED <<processed_int, tails>>
         ELSE LET segments == segments_of(combined_mask)
                  padding_frames == padding_frames_of(vcfg)
                  out == buffers_loop(segments, 1, padding_frames,
                                      tail_condition(segments, padding_frames),
                                      <<>>, <<>>)
              IN  /\ tails' = out.tails
                  /\ IF out.buffers = <<>>
                       THEN /\ ReturnVad("mono", mono)
                            /\ UNCHANGED processed_int
                       ELSE /\ processed_int' = concatenate(out.buffers)
                            /\ vpc' = "l1335" /\ UNCHANGED vresult
    /\ UNCHANGED <<speech_mask, combined_mask>>
    /\ VadFrame

\* line 1338: cfg.get("vad_min_output_ratio", 0.4), as a fraction
min_ratio == <<2, 5>>

\* apply_vad_l1335 without the test of line 1339
apply_vad_l1335_noratio ==
    /\ vpc = "l1335"
    /\ ReturnVad("processed", processed_int)
    /\ UNCHANGED <<speech_mask, combined_mask, processed_int, tails>>
    /\ VadFrame

\* lines 1335-1346: the output is returned unless it retains too little
apply_vad_l1335 ==
    /\ vpc = "l1335"
    /\ IF Len(processed_int) * min_ratio[2] < TotalSamples * min_ratio[1]
         THEN ReturnVad("mono", mono)
         ELSE ReturnVad("processed", processed_int)
    /\ UNCHANGED <<speech_mask, combined_mask, processed_int, tails>>
    /\ VadFrame

\* the frames of the model's buffers: silence, a frame only the classifier
\* finds speech in, a quiet frame and a loud one
FrameKinds ==
    {[is_speech |-> "no", rms |-> 0], [is_speech |-> "yes", rms |-> 0],
     [is_speech |-> "no", rms |-> 15], [is_speech |-> "no", rms |-> 1000]}

\* the remainders: none, a silent sample, a loud one
Remainders ==
    {[size |-> 0, rms |-> 0], [size |-> 1, rms |-> 0], [size |-> 1, rms |-> 1000]}

\* lines 1814-1857: settings the window allows, and the padding of line 1277
\* or none
VadCfgs ==
    [use_vad : {TRUE}, vad_bridge_ms : {0, 30, 180},
     vad_min_energy_frames : {1, 2}, vad_padding_ms : {0, 200}]

\* transcribe_audio calls apply_vad(audio) (line 1379): with filtering on and
\* a classifier that answers for every frame; or with a classifier that
\* fails on some frame; or with filtering off or no classifier library
InitVad ==
    /\ Quiescent /\ RunsIdle /\ DevIdle
    /\ vpc = "l1188"
    /\ speech_mask = <<>> /\ combined_mask = <<>> /\ processed_int = <<>>
    /\ vresult = [kind |-> "none", pos |-> <<>>] /\ tails = <<>>
    /\ vrem \in Remainders
    /\ \/ /\ vcfg \in VadCfgs /\ VAD_AVAILABLE = TRUE
          /\ vframes \in UNION {[1..n -> FrameKinds] : n \in 0..MaxFrames}
       \/ /\ vcfg = [DefaultVadCfg EXCEPT !.use_vad = TRUE] /\ VAD_AVAILABLE = TRUE
          /\ vframes \in UNION {[1..n -> {[is_speech |-> "yes", rms |-> 0],
                                          [is_speech |-> "error", rms |-> 1000]}]
                                  : n \in 1..3}
          /\ \E i \in 1..Len(vframes) : vframes[i].is_speech = "error"
       \/ /\ vcfg \in {DefaultVadCfg, [DefaultVadCfg EXCEPT !.vad_bridge_ms = 0]}
          /\ VAD_AVAILABLE \in BOOLEAN
          /\ vframes \in UNION {[1..n -> FrameKinds] : n \in 0..2}
       \/ /\ vcfg = [DefaultVadCfg EXCEPT !.use_vad = TRUE] /\ VAD_AVAILABLE = FALSE
          /\ vframes \in UNION {[1..n -> FrameKinds] : n \in 0..2}

NextVad ==
    \/ apply_vad_l1188
    \/ apply_vad_l1217
    \/ apply_vad_l1225
    \/ apply_vad_l1265
    \/ apply_vad_l1273
    \/ apply_vad_l1276
    \/ apply_vad_l1335

SpecVad == InitVad /\ [][NextVad]_vars

\* ------------------------------------------------ find_device_index_by_name
\* lines 806-815: the devices with input channels, each with its index in
\* the list of all devices (counted from 0) and its name
list_input_devices ==
    SelectSeq([i \in 1..Len(devices) |-> [index |-> i - 1, name |-> devices[i].name]],
              LAMBDA d : devices[d.index + 1].max_input_channels > 0)

\* Python's "a in b" for strings
contains(a, b) ==
    \E k \in 0..(Len(b) - Len(a)) : SubSeq(b, k + 1, k + Len(a)) = a

\* "for device in devs: if test(device): return device["index"]", where
\* hits are the positions in devs that pass the test
first_index(devs, hits) ==
    devs[CHOOSE k \in hits : \A h \in hits : k <= h].index

\* the rest of the program during the call
DevFrame ==
    /\ UNCHANGED <<devices, dname, runs, vad>>
    /\ UNCHANGED <<glob, lst_but_pure, keys, pc, caller, locals, objs, cb, ext,
                   ncalls, hist>>

\* find_device_l819 without the loop of lines 821-823
find_device_l819_noexact ==
    /\ dpc = "l819"
    /\ IF dname = <<>>
         THEN dresult' = NoIndex /\ dpc' = "done"
         ELSE dpc' = "l824" /\ UNCHANGED dresult
    /\ DevFrame

\* lines 819-823: None for no name; else the first input device whose name
\* is the name, letter case aside
find_device_l819 ==
    /\ dpc = "l819"
    /\ LET devs == list_input_devices
           hits == {k \in 1..Len(devs) : lower(devs[k].name) = lower(dname)}
       IN  IF dname = <<>>
             THEN dresult' = NoIndex /\ dpc' = "done"
           ELSE IF hits # {}
             THEN dresult' = first_index(devs, hits) /\ dpc' = "done"
           ELSE dpc' = "l824" /\ UNCHANGED dresult
    /\ DevFrame

\* lines 824-827: the first input device whose name contains the name,
\* letter case aside; None if there is none
find_device_l824 ==
    /\ dpc = "l824"
    /\ LET devs == list_input_devices
           hits == {k \in 1..Len(devs) : contains(lower(dname), lower(devs[k].name))}
       IN  dresult' = IF hits # {} THEN first_index(devs, hits) ELSE NoIndex
    /\ dpc' = "done"
    /\ DevFrame

\* the names of the model's devices and the numbers of their input channels
DeviceNames == {<<"U", "S">>, <<"u", "s">>, <<"U", "S", "B">>, <<"H", "P">>}
DeviceKinds == [name : DeviceNames, max_input_channels : {0, 2}]

\* the names looked up: none (cfg["device_name"] is None or ""), names of
\* devices in either case, parts of names, a name no device has
LookupNames ==
    {<<>>, <<"u", "s">>, <<"U", "S">>, <<"u", "s", "b">>, <<"S">>, <<"h", "p">>,
     <<"x">>}

\* line 917: find_device_index_by_name(cfg.get("device_name"))
InitDev ==
    /\ Quiescent /\ RunsIdle /\ VadIdle
    /\ dpc = "l819" /\ dresult = NoIndex
    /\ devices \in UNION {[1..n -> DeviceKinds] : n \in 0..MaxDevices}
    /\ dname \in LookupNames

NextDev ==
    \/ find_device_l819
    \/ find_device_l824

SpecDev == InitDev /\ [][NextDev]_vars

\* ------------------------------------------------------------------- claims
\* thread t takes the step of line l
Steps(t, l) == pc[t] = l /\ pc'[t] # l

\* C1: under any interleaving of start_recording, stop_recording and
\* toggle_recording calls made from the hotkey thread, the tray thread and the
\* shutdown path, at most one audio input stream is open at any time
C1_AtMostOneStreamOpen == Cardinality(OpenStreams) <= 1

\* C2: in every reachable state, the intermediate states of concurrent
\* start_recording and stop_recording calls included, state["recording"] true
\* implies that state["stream"] is a non-null, open stream
C2_RecordingImpliesOpenStream == recording => (stream # None /\ stream \in OpenStreams)

\* C3: stop_recording sets recording to False before it stops and closes the
\* stream, and once a session has been flipped the audio callback puts no
\* further chunk into its frame queue, even when a callback invocation is in
\* progress at the moment of the stop
C3_NoChunkAcceptedAfterFlip ==
    [][ /\ \A s \in Sessions :
             (sstatus[s] = "active" /\ sstatus'[s] \in {"stopped", "closed"})
                => ~recording
        /\ \A q \in Sessions : enq'[q] # enq[q] => q \notin flipped ]_vars

\* C4: the buffer handed to the background task of a session is the
\* concatenation, in arrival order, of exactly the chunks the audio callback
\* enqueued during that session: none lost, none duplicated, none taken from
\* another session
C4_BufferIsEnqueuedChunks ==
    \A i \in DOMAIN tasks :
        /\ tasks[i].q # None
        /\ tasks[i].audio = enq[tasks[i].q]
        /\ \A j \in DOMAIN tasks[i].audio : tasks[i].audio[j][1] = tasks[i].q

\* a task was started with a buffer of two chunks
C4_Witness == \E i \in DOMAIN tasks : Len(tasks[i].audio) >= 2

\* C5: start_recording while already recording is a no-op: it returns at once,
\* the streams that are open stay as they are and none is opened, the frame
\* queue of the running session is not replaced, nothing is notified and the
\* state is still Recording
C5_StartWhileRecordingNoOp ==
    [][ \A t \in Threads :
          (Steps(t, "l956") /\ recording)
             => /\ UNCHANGED <<glob, objs, ext, enq>>
                /\ recording'
                /\ pc'[t] = "idle" ]_vars

\* a start_recording found the session of another thread running and returned;
\* exactly that one stream is open and its queue is the current frame queue
C5_Witness ==
    /\ last = "start_noop" /\ recording
    /\ OpenStreams = {stream} /\ AUDIO_QUEUE = stream /\ nalloc = 1

\* C6: stop_recording while Idle, in particular before any start_recording, is
\* a no-op: it returns at once, recording, stream and frame queue are
\* unchanged, nothing is notified and no background task is started
C6_StopWhileIdleNoOp ==
    [][ \A t \in Threads :
          (Steps(t, "l985") /\ ~recording)
             => /\ UNCHANGED <<glob, objs, ext, enq>>
                /\ pc'[t] \in {"idle", "l2338"} ]_vars

\* a stop_recording returned as a no-op before any start_recording
C6_Witness == last = "stop_noop" /\ nalloc = 0 /\ ~recording /\ tasks = <<>>

\* C7: a stop_recording that ends a session in which no chunk was enqueued
\* reports "No audio captured." and starts no background task; one that ends a
\* session with at least one chunk starts exactly one background task for that
\* recording (and no recording ever gets a second task)
C7_NoAudioOrOneTask ==
    /\ [](\A i, j \in DOMAIN tasks : tasks[i].q = tasks[j].q => i = j)
    /\ [][ \A t \in Threads :
             Steps(t, "l1003")
                => /\ queue_obj[t] # None
                   /\ IF enq[queue_obj[t]] = <<>>
                        THEN /\ notes'["noaudio"] = notes["noaudio"] + 1
                             /\ tasks' = tasks
                        ELSE /\ Len(tasks') = Len(tasks) + 1
                             /\ tasks'[Len(tasks')].q = queue_obj[t]
                             /\ notes' = notes ]_vars

\* a session with a chunk was stopped and its one task started
C7_Witness ==
    /\ last = "dispatched" /\ Len(tasks) = 1 /\ ~recording
    /\ enq[tasks[1].q] # <<>> /\ notes["noaudio"] = 0

\* C8: if opening or starting the input stream fails inside start_recording,
\* the state remains Idle (recording false, stream null, no frame queue), the
\* failure is reported, no background task is started and the call returns
\* to its caller without an exception
C8_OpenFailureLeavesIdle ==
    [][ \A t \in Threads :
          (Steps(t, "l963") /\ sstatus'[queue_obj[t]] = "failed")
             => /\ ~recording' /\ stream' = None /\ AUDIO_QUEUE' = None
                /\ notes'["unable"] = notes["unable"] + 1
                /\ tasks' = tasks
                /\ pc'[t] = "idle" ]_vars

\* after a start_recording that failed, a later start_recording succeeded
C8_Witness ==
    /\ notes["unable"] > 0 /\ last = "started" /\ recording
    /\ stream \in OpenStreams /\ AUDIO_QUEUE = stream

\* C9: shutdown() stops both listeners, and calling it more than once
\* (sequentially, or from a signal handler racing with a UI-triggered quit) is
\* safe: a shutdown never closes a stream that was closed already, and no
\* captured buffer is dispatched twice
C9_ShutdownClosesOnce ==
    /\ [](\A i, j \in DOMAIN tasks : tasks[i].q = tasks[j].q => i = j)
    /\ [][ \A t \in Threads :
             /\ (Steps(t, "l998") /\ caller[t] = "shutdown")
                   => closes[lstream[t]] = 0
             /\ Steps(t, "l2347")
                   => hotkey_listener # "running" /\ capture_listener # "running"
       ]_vars

\* the configured key token
required_token == HOTKEY_KEY[2]
\* the listener thread calls toggle_recording in this step
Fires == caller["hotkey"] = "none" /\ caller'["hotkey"] = "toggle"

\* C10: in Listening mode, a key-down of the configured key token fires
\* toggle_recording if and only if the token is not in the listener's set of
\* held tokens and the listener's active modifiers include the binding's
\* required modifiers; and a toggle fires only for a key whose current
\* physical press has not fired one, so that key-down repeats of a held key
\* do not retrigger
C10_HotkeyFiresOncePerPress ==
    [][ /\ \A k \in Keys :
             (/\ k \notin held /\ k \in held'
              /\ ~hotkey_capture_active
              /\ event_to_token(k) = required_token)
                => (Fires <=> /\ required_token \notin active_tokens
                              /\ HOTKEY_KEY[1] \subseteq active_modifiers)
        /\ Fires
             => /\ ~hotkey_capture_active
                /\ required_token \notin active_tokens
                /\ HOTKEY_KEY[1] \subseteq active_modifiers
                /\ \E k \in held' :
                     /\ event_to_token(k) = required_token
                     /\ k \notin firedKeys /\ k \in firedKeys' ]_vars

\* a binding with modifiers fired a toggle with the modifiers held, and the key
\* is still down
C10_Witness ==
    /\ HOTKEY_KEY[1] # {} /\ firedKeys # {}
    /\ caller["hotkey"] = "toggle"
    /\ HOTKEY_KEY[1] \subseteq active_modifiers


\* C11: whenever a recording is active, a key-down of the escape key calls
\* stop_recording, whatever the binding and whether or not a hotkey capture is
\* in progress, and that call ends the recording; when no recording is active
\* a key-down of the escape key calls nothing, so it never starts one
C11_EscapeStopsRecording ==
    [][ /\ ("esc" \notin held /\ "esc" \in held')
             => IF recording
                  THEN /\ caller'["hotkey"] = "on_press"
                       /\ pc'["hotkey"] = "l985"
                  ELSE UNCHANGED <<pc, caller, glob>>
        /\ (caller["hotkey"] = "on_press" /\ Steps("hotkey", "l985"))
             => pc'["hotkey"] = "l988"
        /\ (caller["hotkey"] = "on_press" /\ caller'["hotkey"] = "none")
             => ~recording' ]_vars

\* the escape key, pressed during a hotkey capture with a recording active,
\* has stopped the recording
C11_Witness ==
    /\ hotkey_capture_active /\ "esc" \in held
    /\ ~recording /\ flipped # {} /\ pc["hotkey"] = "idle"
    /\ last \in {"noaudio", "dispatched"}

\* C12: while the capture is active (state["hotkey_capture_active"], from
\* capture_hotkey until the capture is finalized or cancelled) no key event
\* calls toggle_recording; a key-down of the configured hotkey with its
\* modifiers held leaves the hotkey thread idle and the recording state as it was
C12_NoToggleWhileCapturing ==
    [][ hotkey_capture_active
          => /\ ~Fires
             /\ (pc["hotkey"] = "idle" /\ ~recording)
                   => (pc'["hotkey"] = "idle" /\ UNCHANGED <<glob, caller>>) ]_vars

\* a capture is running, the configured hotkey Ctrl+A is down with Ctrl down,
\* both pressed after the capture began, and nothing was called
C12_Witness ==
    /\ hotkey_capture_active /\ capture_listener = "running" /\ finals = <<>>
    /\ HOTKEY_KEY = <<{"CTRL"}, <<"A">>>> /\ persisted = HOTKEY_KEY
    /\ held = {"ctrl_l", "a"}
    /\ active_modifiers = {} /\ active_tokens = {}
    /\ capture_modifiers = {"CTRL"}
    /\ ncalls = 0 /\ ~recording

\* the capture listener's _on_press calls update_hotkey_binding in this step
Finalizes == Len(finals') = Len(finals) + 1

\* C13: in a capture the key-down of a key that is not a modifier finalizes the
\* capture: the binding becomes (the capture modifiers of that moment, the
\* key's token), cfg["hotkey"] holds its config string, the hotkey listener
\* is restarted for the new binding, and then hotkey_capture_active is false
C13_FirstKeyDownFinalizes ==
    [][ /\ (hotkey_capture_active /\ Finalizes)
              => /\ HOTKEY_KEY' = <<capture_modifiers, finals'[Len(finals')]>>
                 /\ cfg_hotkey' = hotkey_to_config(HOTKEY_KEY')
                 /\ hotkey_listener' = "running"
                 /\ active_modifiers' = {} /\ active_tokens' = {}
                 /\ cpc' = "l1527"
        /\ (cpc = "l1527" /\ cpc' # "l1527") => ~hotkey_capture_active' ]_vars

\* C14: within one capture session update_hotkey_binding is called at most
\* once, whatever key-down events the capture listener is still delivered
\* before its thread ends
C14_OneFinalizationPerSession == Len(finals) <= 1

\* the session has finalized and finalize_hotkey has returned, and the capture
\* listener's thread is still there to be delivered further key-downs
C14_Witness ==
    /\ Len(finals) = 1 /\ capture_done
    /\ cap_alive /\ cpc = "idle"
    /\ capture_listener = "unset" /\ ~hotkey_capture_active

\* C15: the hotkey listener (Listening mode) and the capture listener
\* (Capturing mode) are never both running
C15_ListenersMutuallyExclusive ==
    ~(hotkey_listener = "running" /\ capture_listener = "running")

\* C16: when the key-event source cannot be opened as start_hotkey_listener
\* runs, hotkey_listener is left unset and no exception leaves
\* start_hotkey_listener, update_hotkey_binding or main: no listener that does
\* not run is ever stored and no exception is ever propagated
C16_StartFailureLeavesUnset ==
    /\ hotkey_listener \in {"unset", "running"}
    /\ raised = {}

\* main() executes line 2386 in this step
Parses == mpc = "l2386" /\ mpc' = "l2396"

\* C17: parse_hotkey(hotkey_to_config(b)) = b for every valid binding b, the
\* key "+" included: a start that finds in cfg["hotkey"] what update_hotkey_binding
\* wrote for binding b makes b the active binding again
C17_ConfigRoundTrip ==
    [][ (Parses /\ shape = Saved)
          => /\ cfg_hotkey = hotkey_to_config(persisted)
             /\ HOTKEY_KEY' = persisted ]_vars

\* C18: parse_hotkey returns a binding for every text and never raises; for
\* the empty text, a blank text, "CTRL+" and every text whose key token is
\* neither F1 .. F24 nor one character it returns the fallback (no modifiers,
\* F9), and that is the binding main() starts with
C18_ParseFallsBack ==
    LET parsed == parse_hotkey(cfg_hotkey)
    IN  /\ parsed[1] \subseteq MODIFIER_MAP
        /\ parsed[2] \in FKEYS \/ Len(parsed[2]) = 1
        /\ shape.kind = "junk" => parsed = <<{}, F9>>
        /\ mpc = "l2396" => HOTKEY_KEY = parsed
        /\ "main" \notin raised

\* main() has parsed the text "CTRL+" and holds the fallback binding
C18_Witness ==
    /\ mpc = "l2396" /\ shape.kind = "junk"
    /\ cfg_hotkey = <<"C", "T", "R", "L", "+">>
    /\ HOTKEY_KEY = <<{}, F9>>

\* the config string and the label of binding b written out with the
\* modifiers in the order CTRL, SHIFT, ALT, SUPER, then the key token
InOrderConfig(b) ==
    (IF "CTRL" \in b[1] THEN <<"C", "T", "R", "L", "+">> ELSE <<>>)
      \o (IF "SHIFT" \in b[1] THEN <<"S", "H", "I", "F", "T", "+">> ELSE <<>>)
      \o (IF "ALT" \in b[1] THEN <<"A", "L", "T", "+">> ELSE <<>>)
      \o (IF "SUPER" \in b[1] THEN <<"S", "U", "P", "E", "R", "+">> ELSE <<>>)
      \o b[2]

InOrderLabel(b) ==
    (IF "CTRL" \in b[1] THEN <<"C", "t", "r", "l", "+">> ELSE <<>>)
      \o (IF "SHIFT" \in b[1] THEN <<"S", "h", "i", "f", "t", "+">> ELSE <<>>)
      \o (IF "ALT" \in b[1] THEN <<"A", "l", "t", "+">> ELSE <<>>)
      \o (IF "SUPER" \in b[1] THEN <<"S", "u", "p", "e", "r", "+">> ELSE <<>>)
      \o b[2]

\* C19: hotkey_to_config and hotkey_to_label write the modifiers in the order
\* CTRL, SHIFT, ALT, SUPER and then the key token; texts that spell the same
\* binding with another modifier order, letter case or blanks around the parts
\* parse to a binding with the same config string and the same label
C19_FixedModifierOrder ==
    /\ hotkey_to_config(HOTKEY_KEY) = InOrderConfig(HOTKEY_KEY)
    /\ hotkey_to_label(HOTKEY_KEY) = InOrderLabel(HOTKEY_KEY)
    /\ (mpc = "l2396" /\ shape.kind = "edited" /\ ~shape.extra)
         => /\ hotkey_to_config(HOTKEY_KEY) = InOrderConfig(persisted)
            /\ hotkey_to_label(HOTKEY_KEY) = InOrderLabel(persisted)

\* main() has parsed " alt + ctrl + f9 ": the label is "Ctrl+Alt+F9" and the
\* config string "CTRL+ALT+F9"
C19_Witness ==
    /\ mpc = "l2396"
    /\ cfg_hotkey = <<" ", "a", "l", "t", " ", "+", " ", "c", "t", "r", "l", " ", "+", " ", "f", "9", " ">>
    /\ hotkey_to_label(HOTKEY_KEY) = <<"C", "t", "r", "l", "+", "A", "l", "t", "+", "F", "9">>
    /\ hotkey_to_config(HOTKEY_KEY) = <<"C", "T", "R", "L", "+", "A", "L", "T", "+", "F", "9">>

\* C20: whatever texts are parsed at startup and whatever captures and resets
\* follow, HOTKEY_KEY has one key token that is F1 .. F24 or one upper-case
\* character and modifiers among CTRL, ALT, SHIFT, SUPER; a modifier name the
\* program does not know is dropped from the parsed binding
C20_BindingAlwaysValid ==
    /\ HOTKEY_KEY[1] \subseteq MODIFIER_MAP
    /\ \/ HOTKEY_KEY[2] \in FKEYS
       \/ /\ Len(HOTKEY_KEY[2]) = 1
          /\ upper(HOTKEY_KEY[2]) = HOTKEY_KEY[2]
          /\ HOTKEY_KEY[2][1] \notin Whitespace
    /\ (mpc = "l2396" /\ shape.kind = "edited" /\ shape.extra)
         => HOTKEY_KEY = persisted

\* a capture with Ctrl and Super down was finalized by the sharp s key, whose
\* token "SS" is no key token: the binding is Ctrl+Super+F9
C20_Witness ==
    /\ mpc = "running" /\ finals = <<<<"S", "S">>>>
    /\ HOTKEY_KEY = <<{"CTRL", "SUPER"}, F9>>
    /\ cfg_hotkey = hotkey_to_config(HOTKEY_KEY)

\* C21: for every mask and every min_len = k the array _drop_short_runs returns
\* is as long as the mask, is true only where the mask is true, and each of
\* its true elements lies in a run of at least k true elements
C21_NoShortRunsLeft ==
    rpc = "done"
      => /\ Len(cleaned) = Len(mask)
         /\ \A i \in 1..Len(cleaned) :
              cleaned[i]
                => /\ mask[i]
                   /\ \E a \in 1..i, b \in i..Len(cleaned) :
                        /\ b - a + 1 >= min_len
                        /\ \A j \in a..b : cleaned[j]

\* a mask with a run of two and, at its end, a run of one, cleaned with k = 2
C21_Witness ==
    /\ rpc = "done" /\ min_len = 2
    /\ mask = <<TRUE, TRUE, FALSE, TRUE>>
    /\ cleaned = <<TRUE, TRUE, FALSE, FALSE>>

\* apply_vad returned processed audio (not mono, no exception)
Processed == vpc = "done" /\ vresult.kind = "processed"

\* C22: the buffer apply_vad returns is never longer than the buffer it was
\* given
C22_OutputNotLonger ==
    (vpc = "done" /\ vresult.kind # "raised") => Len(vresult.pos) <= TotalSamples

\* C23: processed audio is returned only if it retains at least 0.4 of the
\* input's samples; below that apply_vad returns the input unchanged
C23_RatioFallback ==
    /\ Processed => Len(vresult.pos) * 5 >= TotalSamples * 2
    /\ (vpc = "done" /\ processed_int # <<>> /\ vresult.kind # "raised"
          /\ Len(processed_int) * 5 < TotalSamples * 2)
         => vresult = [kind |-> "mono", pos |-> mono]

\* two of five frames and a silent remainder were kept (4 samples of 11):
\* the input came back
C23_Witness ==
    /\ vpc = "done" /\ Len(vframes) = 5 /\ vrem.size = 1
    /\ Len(processed_int) = 4
    /\ vresult = [kind |-> "mono", pos |-> mono]

\* C24: apply_vad never raises: for every buffer, every classifier result and
\* every allowed configuration it returns a buffer
C24_NeverRaises ==
    vpc = "done" => vresult.kind \in {"mono", "processed"}

\* C25: with use_vad false, or without the classifier library, apply_vad
\* returns its input unchanged, whatever the buffer
C25_DisabledIsIdentity ==
    (vpc = "done" /\ (~vcfg.use_vad \/ ~VAD_AVAILABLE))
      => vresult = [kind |-> "mono", pos |-> mono]

\* filtering is switched off and the library is there; a buffer of a loud
\* frame, a silent one and a loud remainder came back as it was
C25_Witness ==
    /\ vpc = "done" /\ ~vcfg.use_vad /\ VAD_AVAILABLE
    /\ vframes = <<[is_speech |-> "no", rms |-> 1000], [is_speech |-> "no", rms |-> 0]>>
    /\ vrem = [size |-> 1, rms |-> 1000]
    /\ vresult = [kind |-> "mono", pos |-> <<1, 2, 3, 4, 5>>]

\* C26: with filtering enabled, when the combined mask of line 1246 has no
\* true frame apply_vad returns its input unchanged, which is not empty
C26_EmptyMaskReturnsInput ==
    [][(vpc = "l1225" /\ \A i \in 1..Len(combined_mask') : ~combined_mask'[i])
         => /\ vpc' = "done"
            /\ vresult' = [kind |-> "mono", pos |-> mono]
            /\ vresult'.pos # <<>>]_vars

\* a buffer of five silent frames, filtering enabled: no frame is true in
\* the combined mask and the buffer came back
C26_Witness ==
    /\ vpc = "done" /\ vcfg.use_vad /\ VAD_AVAILABLE
    /\ vframes = [i \in 1..5 |-> [is_speech |-> "no", rms |-> 0]]
    /\ combined_mask = [i \in 1..5 |-> FALSE]
    /\ vresult = [kind |-> "mono", pos |-> mono]

\* C27: when the classifier fails on a frame, apply_vad returns its input
\* unchanged, whatever it had decided for the frames before
C27_ClassifierFailureReturnsInput ==
    (/\ vpc = "done" /\ vcfg.use_vad /\ VAD_AVAILABLE
     /\ \E i \in 1..Len(vframes) : vframes[i].is_speech = "error")
      => vresult = [kind |-> "mono", pos |-> mono]

\* the classifier found speech in the first frame and failed on the second
\* of three: the buffer came back
C27_Witness ==
    /\ vpc = "done" /\ vcfg.use_vad /\ VAD_AVAILABLE
    /\ Len(vframes) = 3
    /\ vframes[1].is_speech = "yes" /\ vframes[2].is_speech = "error"
    /\ speech_mask = <<TRUE, FALSE, FALSE>>
    /\ vresult = [kind |-> "mono", pos |-> mono]

\* C29: the output of apply_vad is in the input's temporal order: the input
\* positions of its samples never decrease from its start to its end, the
\* appended remainder included
C29_TemporalOrder ==
    Processed
      => \A i \in 1..Len(vresult.pos), j \in 1..Len(vresult.pos) :
           i < j => vresult.pos[i] <= vresult.pos[j]

\* the positions in seq at which a sample of the remainder stands
RemainderAt(seq) == {i \in 1..Len(seq) : seq[i] > Len(vframes) * FrameLen}

\* segment k of the current mask is not empty after padding and its end
\* reaches the last frame
ReachesEnd(k) ==
    LET seg == segments_of(combined_mask)[k]
        p == padding_frames_of(vcfg)
    IN  /\ end_idx_of(seg, p) > start_idx_of(seg, p)
        /\ end_idx_of(seg, p) >= Len(vframes)

\* C30: the remainder is appended to the output at most once: to the first
\* segment whose padded end reaches the last frame and to no other, and only
\* when it is not empty and its RMS reaches the energy floor
C30_RemainderOnce ==
    (vpc \in {"l1335", "done"} /\ processed_int # <<>>)
      => /\ Len(tails) <= 1
         /\ Cardinality(RemainderAt(processed_int)) = Len(tails) * vrem.size
         /\ tails # <<>>
              => /\ vrem.size > 0 /\ vrem.rms >= energy_floor
                 /\ ReachesEnd(tails[1])
                 /\ \A k \in 1..(tails[1] - 1) : ~ReachesEnd(k)
         /\ Processed => Cardinality(RemainderAt(vresult.pos)) <= vrem.size

\* two padded segments both reach the last frame and the remainder is loud:
\* it stands once, after the first of them
C30_Witness ==
    /\ Processed /\ Len(vframes) = 3 /\ vrem = [size |-> 1, rms |-> 1000]
    /\ Len(segments_of(combined_mask)) = 2
    /\ ReachesEnd(1) /\ ReachesEnd(2)
    /\ tails = <<1>>
    /\ vresult.pos = <<1, 2, 3, 4, 5, 6, 7, 1, 2, 3, 4, 5, 6>>

\* the indices of the input devices whose lowered name passes test
InputsWhere(test(_)) ==
    {i \in 0..(Len(devices) - 1) :
       /\ devices[i + 1].max_input_channels > 0
       /\ test(lower(devices[i + 1].name))}

\* the least index in a set of indices, None for the empty set
LeastIndex(S) == IF S = {} THEN NoIndex ELSE CHOOSE i \in S : \A j \in S : i <= j

C31_BridgeIsDilation ==
    [][(vpc = "l1265" /\ bridge_frames_of(vcfg) > 0)
         => /\ Len(combined_mask') = Len(vframes)
            /\ \A t \in 1..Len(combined_mask') :
                 combined_mask'[t]
                   <=> \E i \in 1..Len(combined_mask) :
                         /\ combined_mask[i]
                         /\ i - t <= bridge_frames_of(vcfg)
                         /\ t - i <= bridge_frames_of(vcfg)]_vars

\* the RMS of each frame of the buffer
rms_of_frames == [i \in 1..Len(vframes) |-> vframes[i].rms]

\* C32: the soft threshold is never higher than the energy threshold,
\* whatever max_rms is
C32_SoftBelowEnergy ==
    vpc = "l1265"
      => soft_threshold_scaled(rms_of_frames) <= energy_threshold_scaled(rms_of_frames)

\* C35: no input frame appears more than once in the output of apply_vad
C35_NoFrameTwice ==
    Processed
      => \A i \in 1..Len(vresult.pos), j \in 1..Len(vresult.pos) :
           vresult.pos[i] = vresult.pos[j] => i = j

\* C33: after startup and after every change of the binding the text in
\* cfg["hotkey"] parses back to the active binding, whatever key a capture
\* was finalized with
C33_PersistedParsesToActive ==
    mpc = "running" => parse_hotkey(cfg_hotkey) = HOTKEY_KEY

\* C36: the audio callback never fails, whatever stop_recording and
\* start_recording do between its test of AUDIO_QUEUE and its put
C36_CallbackNeverFails == ~cbraised

\* C37: stop_recording always terminates: a thread that is in its drain loop
\* leaves it, also when two calls of stop_recording drain the same queue
C37_StopTerminates ==
    \A t \in Threads : (pc[t] \in {"l1000", "l1002"}) ~> (pc[t] \notin {"l1000", "l1002"})

\* C34: a capture session that was cancelled never changes the binding: a
\* key-down its listener is still delivered before its thread has ended
\* does not call update_hotkey_binding, so that HOTKEY_KEY and cfg["hotkey"]
\* stay as they are
C34_CancelledNeverRebinds ==
    [][ (cap_alive /\ capture_listener # "running" /\ ~capture_done)
          => ~Finalizes ]_vars

\* the modifiers of which a key is physically down
PhysicalMods == {modifier_name(k) : k \in held} \ {NoName}

\* C38: after a capture that was cancelled without finalization the
\* listener's sets agree with the keys that are down: a toggle fires only
\* when the binding's modifiers are physically held, and a fresh press of the
\* configured key with the modifiers held fires one
C38_MatcherAgreesAfterCancel ==
    [][ (finals = <<>> /\ ~hotkey_capture_active)
          => /\ Fires => HOTKEY_KEY[1] \subseteq PhysicalMods
             /\ \A k \in held' \ held :
                  (/\ event_to_token(k) = required_token
                   /\ HOTKEY_KEY[1] \subseteq PhysicalMods)
                    => Fires ]_vars

\* C39: the key press that finalizes a capture never toggles recording:
\* neither that key-down as the listener of before sees it, nor the
\* auto-repeat key-downs of the key, still held, as the restarted listener
\* sees them; a toggle fires only for a key pressed after the finalization
C39_FinalizingPressNeverToggles ==
    [][ (finals # <<>> /\ Fires)
          => \E k \in held' \ held : event_to_token(k) = required_token ]_vars

\* C40: a required modifier counts as active as long as one of its physical
\* variants is held: the listener's active modifiers include every modifier
\* of which a key is down, and a press of the configured key with the
\* binding's modifiers physically held fires toggle_recording
C40_ModifierActiveWhileAnyVariantHeld ==
    [][ /\ PhysicalMods' \subseteq active_modifiers'
        /\ \A k \in held' \ held :
             (/\ event_to_token(k) = required_token
              /\ HOTKEY_KEY[1] \subseteq PhysicalMods)
               => Fires ]_vars

=============================================================================
